---- MODULE Spec2Model ----
(***************************************************************************)
(* Model of the bridge-encodings crate: the column-layout ("printall")     *)
(* encoder and decoder, the single-line dot-notation decoder, the LIN md   *)
(* field with fourth-hand inference, and the streaming DealReader.         *)
(* Text is modelled as sequences of one-character strings, so that         *)
(* formatting and parsing are computed character by character.             *)
(***************************************************************************)
EXTENDS Integers, Sequences, FiniteSets, TLC

VARIABLES
    pa_pc, pa_deal, pa_board, pa_text, pa_result,
    lin_pc, lin_in, lin_result,
    rd_pc, rd_units, rd_src, rd_pos, line_number, deals_read, rd_items,
    pbn_pc, pbn_content, pbn_pos, boards, current_board, has_content, in_commentary,
    wr_boards,
    ol_pc, ol_deal, ol_text, ol_result

pa_vars == <<pa_pc, pa_deal, pa_board, pa_text, pa_result>>
lin_vars == <<lin_pc, lin_in, lin_result>>
rd_vars == <<rd_pc, rd_units, rd_src, rd_pos, line_number, deals_read, rd_items>>
pbn_vars ==
    <<pbn_pc, pbn_content, pbn_pos, boards, current_board, has_content, in_commentary,
      wr_boards>>
ol_vars == <<ol_pc, ol_deal, ol_text, ol_result>>
vars == <<pa_vars, lin_vars, rd_vars, pbn_vars, ol_vars>>

(***************************************************************************)
(* Text primitives (Rust str methods used by the decoders).                *)
(***************************************************************************)
NL == "\n"

IsWs(c) == c = " " \/ c = NL \/ c = "\t" \/ c = "\r"

Digits == {"0", "1", "2", "3", "4", "5", "6", "7", "8", "9"}

SetMax(S) == CHOOSE x \in S : \A y \in S : x >= y

\* The indices 1..n in increasing order.
Indices(n) == [i \in 1..n |-> i]

AllWs(s) == \A i \in 1..Len(s) : IsWs(s[i])

TrimStart(s) ==
    IF AllWs(s) THEN <<>>
    ELSE SubSeq(s, CHOOSE i \in 1..Len(s) :
                       ~IsWs(s[i]) /\ \A j \in 1..(i - 1) : IsWs(s[j]), Len(s))

TrimEnd(s) ==
    IF AllWs(s) THEN <<>>
    ELSE SubSeq(s, 1, CHOOSE i \in 1..Len(s) :
                          ~IsWs(s[i]) /\ \A j \in (i + 1)..Len(s) : IsWs(s[j]))

Trim(s) == TrimEnd(TrimStart(s))

TrimEndMatches(s, c) ==
    IF \A i \in 1..Len(s) : s[i] = c THEN <<>>
    ELSE SubSeq(s, 1, CHOOSE i \in 1..Len(s) :
                          s[i] # c /\ \A j \in (i + 1)..Len(s) : s[j] = c)

EndsWith(s, c) == s # <<>> /\ s[Len(s)] = c

StartsWith(s, p) == Len(s) >= Len(p) /\ SubSeq(s, 1, Len(p)) = p

\* str::split(c): every separator closes a piece, empty pieces are kept.
Split(s, c) ==
    LET seps == SelectSeq(Indices(Len(s)), LAMBDA i : s[i] = c)
        n == Len(seps) + 1
        lo(k) == IF k = 1 THEN 1 ELSE seps[k - 1] + 1
        hi(k) == IF k = n THEN Len(s) ELSE seps[k] - 1
    IN  [k \in 1..n |-> SubSeq(s, lo(k), hi(k))]

\* str::split_whitespace(): runs of whitespace separate, no empty pieces.
SplitWhitespace(s) ==
    LET starts == SelectSeq(Indices(Len(s)),
                            LAMBDA i : ~IsWs(s[i]) /\ (i = 1 \/ IsWs(s[i - 1])))
        ends == SelectSeq(Indices(Len(s)),
                          LAMBDA i : ~IsWs(s[i]) /\ (i = Len(s) \/ IsWs(s[i + 1])))
    IN  [k \in 1..Len(starts) |-> SubSeq(s, starts[k], ends[k])]

\* str::lines(): split at newlines, a final empty piece is not a line.
Lines(s) ==
    LET pieces == Split(s, NL)
    IN  IF pieces[Len(pieces)] = <<>> THEN SubSeq(pieces, 1, Len(pieces) - 1) ELSE pieces

\* The concatenation of a sequence of sequences.
RECURSIVE Flatten(_)
Flatten(ss) ==
    IF ss = <<>> THEN <<>>
    ELSE IF Len(ss) = 1 THEN ss[1]
    ELSE Flatten(SubSeq(ss, 1, Len(ss) \div 2))
         \o Flatten(SubSeq(ss, (Len(ss) \div 2) + 1, Len(ss)))

DigitSeq == <<"0", "1", "2", "3", "4", "5", "6", "7", "8", "9">>

DigitVal(c) == (CHOOSE v \in 1..10 : DigitSeq[v] = c) - 1

\* usize::MAX on a 64-bit target, 18446744073709551615, digit by digit.
UsizeMaxDigits ==
    <<"1", "8", "4", "4", "6", "7", "4", "4", "0", "7", "3", "7", "0", "9", "5",
      "5", "1", "6", "1", "5">>

\* The decimal number written by the digits ds does not exceed the number
\* written by max.
FitsMax(ds, max) ==
    LET nz == IF \A i \in 1..Len(ds) : ds[i] = "0" THEN <<"0">>
              ELSE SubSeq(ds, CHOOSE i \in 1..Len(ds) :
                                  ds[i] # "0" /\ \A j \in 1..(i - 1) : ds[j] = "0",
                          Len(ds))
    IN  \/ Len(nz) < Len(max)
        \/ /\ Len(nz) = Len(max)
           /\ \/ nz = max
              \/ \E i \in 1..Len(nz) :
                    /\ DigitVal(nz[i]) < DigitVal(max[i])
                    /\ \A j \in 1..(i - 1) : nz[j] = max[j]

FitsUsize(ds) == FitsMax(ds, UsizeMaxDigits)

\* str::parse::<usize>(): an optional '+' sign, then at least one digit, the
\* value within the range of usize.
ParsesAsUsize(s) ==
    LET body == IF s # <<>> /\ s[1] = "+" THEN Tail(s) ELSE s
    IN  /\ body # <<>>
        /\ \A i \in 1..Len(body) : body[i] \in Digits
        /\ FitsUsize(body)

RECURSIVE DigitsOf(_)
DigitsOf(n) ==
    LET d == <<"0", "1", "2", "3", "4", "5", "6", "7", "8", "9">>[(n % 10) + 1]
    IN  IF n < 10 THEN <<d>> ELSE Append(DigitsOf(n \div 10), d)

Spaces(n) == [i \in 1..n |-> " "]

(***************************************************************************)
(* Card model (crate bridge_types): Suit, Rank, Card, Direction, Hand,     *)
(* Deal.  A Hand is the list of cards added to it, a Deal maps each of the *)
(* four Directions to a Hand.                                              *)
(***************************************************************************)
SuitOrder == <<"S", "H", "D", "C">>
SuitSet == {"S", "H", "D", "C"}

RankChars == <<"2", "3", "4", "5", "6", "7", "8", "9", "T", "J", "Q", "K", "A">>
MinRank == 2
MaxRank == 14
RankSet == MinRank..MaxRank

\* The characters Rank::from_char recognizes.
RankCharSet == {RankChars[i] : i \in 1..13}

RankToChar(r) == RankChars[r - 1]

\* Rank::from_char: the rank of a display character, 0 when unrecognized.
RankFromChar(c) ==
    CASE c = "2" -> 2 [] c = "3" -> 3 [] c = "4" -> 4 [] c = "5" -> 5
      [] c = "6" -> 6 [] c = "7" -> 7 [] c = "8" -> 8 [] c = "9" -> 9
      [] c = "T" -> 10 [] c = "J" -> 11 [] c = "Q" -> 12 [] c = "K" -> 13
      [] c = "A" -> 14 [] OTHER -> 0

Card(s, r) == [suit |-> s, rank |-> r]

Universe == {Card(s, r) : s \in SuitSet, r \in RankSet}

DirSet == {"N", "E", "S", "W"}

EmptyHand == <<>>

add_card(hand, card) == Append(hand, card)

has_card(hand, card) == \E i \in 1..Len(hand) : hand[i] = card

cards_in_suit(hand, s) == SelectSeq(hand, LAMBDA c : c.suit = s)

HandCards(hand) == {hand[i] : i \in 1..Len(hand)}

NewDeal == [d \in DirSet |-> EmptyHand]

set_hand(deal, dir, hand) == [deal EXCEPT ![dir] = hand]

\* sort_by(|a, b| b.rank.cmp(&a.rank)) on the cards of one suit.
RECURSIVE SortFrom(_, _)
SortFrom(cards, r) ==
    IF r < MinRank THEN <<>>
    ELSE SelectSeq(cards, LAMBDA c : c.rank = r) \o SortFrom(cards, r - 1)

SortByRankDesc(cards) == SortFrom(cards, MaxRank)

(***************************************************************************)
(* printall.rs: the column layout, 4 columns of COLUMN_WIDTH characters    *)
(* (North, East, South, West), one line per suit (S, H, D, C).             *)
(***************************************************************************)
COLUMN_WIDTH == 20

Positions == <<"N", "E", "S", "W">>

\* Each card as its rank character followed by a space.
RankRun(cards) ==
    [i \in 1..(2 * Len(cards)) |->
        IF i % 2 = 1 THEN RankToChar(cards[(i + 1) \div 2].rank) ELSE " "]

\* The inner loop of format_printall: one suit line, column k onwards.
\* cards_count is the number of 2-character slots the previous column used.
RECURSIVE FormatColumns(_, _, _, _, _)
FormatColumns(deal, suit, k, text, cards_count) ==
    IF k > 4 THEN text
    ELSE LET padded == text \o Spaces(2 * (10 - cards_count))
             cards == SortByRankDesc(cards_in_suit(deal[Positions[k]], suit))
         IN  IF cards = <<>>
             THEN FormatColumns(deal, suit, k + 1, padded \o <<"-", " ">>, 1)
             ELSE FormatColumns(deal, suit, k + 1, padded \o RankRun(cards), Len(cards))

FormatHeader(board_number) ==
    Spaces(4 - Len(DigitsOf(board_number))) \o DigitsOf(board_number) \o <<".", NL>>

format_printall(deal, board_number) ==
    FormatHeader(board_number)
    \o Flatten([i \in 1..4 |-> FormatColumns(deal, SuitOrder[i], 1, <<>>, 10) \o <<NL>>])
    \o <<NL>>

Min(a, b) == IF a < b THEN a ELSE b

\* ParseColumn without the void marker: "-" is read as a rank character.
ParseColumn_DashIsRank(line, col_idx) ==
    LET start == col_idx * COLUMN_WIDTH
        end == Min(start + COLUMN_WIDTH, Len(line))
        column == IF start < Len(line) THEN Trim(SubSeq(line, start + 1, end)) ELSE <<>>
    IN  IF column = <<>> THEN <<>>
        ELSE SelectSeq(column, LAMBDA c : ~IsWs(c))

\* The characters of the whitespace-separated tokens of column col_idx
\* (0-based) of a suit line, i.e. its non-whitespace characters in order.
ParseColumn(line, col_idx) ==
    LET start == col_idx * COLUMN_WIDTH
        end == Min(start + COLUMN_WIDTH, Len(line))
        column == IF start < Len(line) THEN Trim(SubSeq(line, start + 1, end)) ELSE <<>>
    IN  IF column = <<"-">> \/ column = <<>> THEN <<>>
        ELSE SelectSeq(column, LAMBDA c : ~IsWs(c))

PrintallError(msg) == [ok |-> FALSE, deal |-> NewDeal, consumed |-> 0, err |-> msg]

RECURSIVE SkipBlankLines(_, _)
SkipBlankLines(lines, idx) ==
    IF idx < Len(lines) /\ Trim(lines[idx + 1]) = <<>>
    THEN SkipBlankLines(lines, idx + 1)
    ELSE idx

\* The rank characters of the suit line at 0-based index idx, per column.
SuitLineColumns(lines, idx) == [k \in 1..4 |-> ParseColumn(lines[idx + 1], k - 1)]

\* The suit loop without the skip of a trailing blank line.
ParseSuitLines_NoTrailingBlank(lines, idx) ==
    LET missing(si) == idx + si - 1 >= Len(lines)
        invalid(si) ==
            LET cols == SuitLineColumns(lines, idx + si - 1)
            IN  \E k \in 1..4 : \E i \in 1..Len(cols[k]) : RankFromChar(cols[k][i]) = 0
        failed == {si \in 1..4 : missing(si) \/ invalid(si)}
        end == idx + 4
    IN  IF failed # {}
        THEN IF missing(CHOOSE si \in failed : \A sj \in failed : si <= sj)
             THEN PrintallError("end of input")
             ELSE PrintallError("invalid rank")
        ELSE [ok |-> TRUE,
              deal |-> [d \in DirSet |->
                  LET k == CHOOSE k \in 1..4 : Positions[k] = d
                  IN  Flatten([si \in 1..4 |->
                          LET col == SuitLineColumns(lines, idx + si - 1)[k]
                          IN  [i \in 1..Len(col) |->
                                  Card(SuitOrder[si], RankFromChar(col[i]))]])],
              consumed |-> end,
              err |-> ""]

\* The suit loop of parse_printall from the 0-based line index idx: suit
\* number si takes line idx + si - 1; the loop fails at the first suit whose
\* line is missing or holds a character that is not a rank.
ParseSuitLines(lines, idx) ==
    LET missing(si) == idx + si - 1 >= Len(lines)
        invalid(si) ==
            LET cols == SuitLineColumns(lines, idx + si - 1)
            IN  \E k \in 1..4 : \E i \in 1..Len(cols[k]) : RankFromChar(cols[k][i]) = 0
        failed == {si \in 1..4 : missing(si) \/ invalid(si)}
        end == idx + 4
    IN  IF failed # {}
        THEN IF missing(CHOOSE si \in failed : \A sj \in failed : si <= sj)
             THEN PrintallError("end of input")
             ELSE PrintallError("invalid rank")
        ELSE [ok |-> TRUE,
              deal |-> [d \in DirSet |->
                  LET k == CHOOSE k \in 1..4 : Positions[k] = d
                  IN  Flatten([si \in 1..4 |->
                          LET col == SuitLineColumns(lines, idx + si - 1)[k]
                          IN  [i \in 1..Len(col) |->
                                  Card(SuitOrder[si], RankFromChar(col[i]))]])],
              consumed |-> IF end < Len(lines) /\ Trim(lines[end + 1]) = <<>>
                           THEN end + 1 ELSE end,
              err |-> ""]

parse_printall(lines) ==
    LET idx == SkipBlankLines(lines, 0)
    IN  IF idx >= Len(lines) THEN PrintallError("no data")
        ELSE LET header == Trim(lines[idx + 1])
             IN  IF ~EndsWith(header, ".")
                    \/ ~ParsesAsUsize(Trim(TrimEndMatches(header, ".")))
                 THEN PrintallError("board number")
                 ELSE ParseSuitLines(lines, idx + 1)

(***************************************************************************)
(* oneline.rs: "n S.H.D.C e S.H.D.C s S.H.D.C w S.H.D.C".                  *)
(***************************************************************************)
UpperChars == <<"A", "B", "C", "D", "E", "F", "G", "H", "I", "J", "K", "L", "M",
                "N", "O", "P", "Q", "R", "S", "T", "U", "V", "W", "X", "Y", "Z">>
LowerChars == <<"a", "b", "c", "d", "e", "f", "g", "h", "i", "j", "k", "l", "m",
                "n", "o", "p", "q", "r", "s", "t", "u", "v", "w", "x", "y", "z">>

ToLowerChar(c) ==
    IF \E i \in 1..26 : UpperChars[i] = c
    THEN LowerChars[CHOOSE i \in 1..26 : UpperChars[i] = c]
    ELSE c

ToUpperChar(c) ==
    IF \E i \in 1..26 : LowerChars[i] = c
    THEN UpperChars[CHOOSE i \in 1..26 : LowerChars[i] = c]
    ELSE c

ToLowercase(s) == [i \in 1..Len(s) |-> ToLowerChar(s[i])]

\* parse_direction_char that reads the direction off the last character of
\* the token.
parse_direction_char_LastChar(s) ==
    LET l == ToLowercase(s)
    IN  IF EndsWith(l, "n") THEN "N"
        ELSE IF EndsWith(l, "e") THEN "E"
        ELSE IF EndsWith(l, "s") THEN "S"
        ELSE IF EndsWith(l, "w") THEN "W"
        ELSE ""

\* parse_direction_char: the Direction of a token, "" when it is an error.
parse_direction_char(s) ==
    LET l == ToLowercase(s)
    IN  IF l = <<"n">> THEN "N"
        ELSE IF l = <<"e">> THEN "E"
        ELSE IF l = <<"s">> THEN "S"
        ELSE IF l = <<"w">> THEN "W"
        ELSE ""

\* parse_hand: 4 dot-separated rank runs in S, H, D, C order.
parse_hand(s) ==
    LET suits_str == Split(s, ".")
    IN  IF Len(suits_str) # 4 THEN [ok |-> FALSE, hand |-> EmptyHand]
        ELSE IF \E k \in 1..4 : \E i \in 1..Len(suits_str[k]) :
                    RankFromChar(suits_str[k][i]) = 0
        THEN [ok |-> FALSE, hand |-> EmptyHand]
        ELSE [ok |-> TRUE,
              hand |-> Flatten([k \in 1..4 |->
                          [i \in 1..Len(suits_str[k]) |->
                              Card(SuitOrder[k], RankFromChar(suits_str[k][i]))]])]

OnelineError == [ok |-> FALSE, deal |-> NewDeal]

\* The position loop of parse_oneline, pair i (0-based) onwards.
RECURSIVE ParsePairs(_, _, _)
ParsePairs(parts, i, deal) ==
    IF i >= 4 THEN [ok |-> TRUE, deal |-> deal]
    ELSE LET direction == parse_direction_char(parts[i * 2 + 1])
             hand == parse_hand(parts[i * 2 + 2])
         IN  IF direction = "" THEN OnelineError
             ELSE IF ~hand.ok THEN OnelineError
             ELSE ParsePairs(parts, i + 1, set_hand(deal, direction, hand.hand))

parse_oneline(input) ==
    LET parts == SplitWhitespace(input)
    IN  IF Len(parts) # 8 THEN OnelineError
        ELSE ParsePairs(parts, 0, NewDeal)

(***************************************************************************)
(* bridge_types::Deal::from_pbn: "<dir>:<hand> <hand> <hand> <hand>",      *)
(* hands in dot notation, clockwise from the named direction.              *)
(***************************************************************************)
Clockwise == <<"N", "E", "S", "W">>

\* oneline.rs, the writer.  direction_char: the lowercase letter of a
\* Direction.
direction_char(dir) == ToLowerChar(dir)

\* format_hand that leaves a void suit out instead of writing it empty.
format_hand_VoidsDropped(hand) ==
    LET suit_str(k) ==
            LET cards == SortByRankDesc(cards_in_suit(hand, SuitOrder[k]))
            IN  [i \in 1..Len(cards) |-> RankToChar(cards[i].rank)]
        held == SelectSeq(Indices(4), LAMBDA k : suit_str(k) # <<>>)
    IN  Flatten([j \in 1..Len(held) |->
            IF j = 1 THEN suit_str(held[j]) ELSE <<".">> \o suit_str(held[j])])

\* format_hand: the 4 suits in S, H, D, C order, ranks descending, joined
\* by ".", a void suit being the empty string.
format_hand(hand) ==
    LET suit_str(k) ==
            LET cards == SortByRankDesc(cards_in_suit(hand, SuitOrder[k]))
            IN  [i \in 1..Len(cards) |-> RankToChar(cards[i].rank)]
    IN  Flatten([k \in 1..4 |->
            IF k = 1 THEN suit_str(k) ELSE <<".">> \o suit_str(k)])

\* format_oneline: "n CARDS e CARDS s CARDS w CARDS\n".
format_oneline(deal) ==
    Flatten([k \in 1..4 |->
        (IF k = 1 THEN <<>> ELSE <<" ">>)
        \o <<direction_char(Clockwise[k]), " ">> \o format_hand(deal[Clockwise[k]])])
    \o <<NL>>

DealFromPbn(value) ==
    LET none == [some |-> FALSE, deal |-> NewDeal]
    IN  IF Len(value) < 2 \/ value[2] # ":" \/ value[1] \notin DirSet THEN none
        ELSE LET hands == SplitWhitespace(SubSeq(value, 3, Len(value)))
                 first == CHOOSE k \in 1..4 : Clockwise[k] = value[1]
             IN  IF Len(hands) # 4 THEN none
                 ELSE IF \E k \in 1..4 : ~parse_hand(hands[k]).ok THEN none
                 ELSE [some |-> TRUE,
                       deal |-> [d \in DirSet |->
                           LET pos == CHOOSE k \in 1..4 : Clockwise[k] = d
                           IN  parse_hand(hands[((pos - first + 4) % 4) + 1]).hand]]

(***************************************************************************)
(* lin/mod.rs: the pipe-tokenized notation.                                *)
(***************************************************************************)
\* Suit::ALL x Rank::ALL, the order in which calculate_fourth_hand scans.
SuitAll == <<"S", "H", "D", "C">>

AllCards == [i \in 1..52 |-> Card(SuitAll[((i - 1) \div 13) + 1], MinRank + ((i - 1) % 13))]

\* The char loop of parse_lin_hand: a suit letter sets the current suit, any
\* other character adds a card when a suit is set and it is a rank character.
parse_lin_hand(hand_str) ==
    LET letters == {i \in 1..Len(hand_str) : ToUpperChar(hand_str[i]) \in SuitSet}
        current_suit(i) == ToUpperChar(hand_str[SetMax({j \in letters : j < i})])
        added == SelectSeq(Indices(Len(hand_str)),
                           LAMBDA i : /\ i \notin letters
                                      /\ \E j \in letters : j < i
                                      /\ RankFromChar(hand_str[i]) # 0)
    IN  [k \in 1..Len(added) |->
            Card(current_suit(added[k]), RankFromChar(hand_str[added[k]]))]

\* calculate_fourth_hand with a scan of the other hands that leaves West out.
calculate_fourth_hand_SkipsWest(deal, fourth_dir) ==
    SelectSeq(AllCards,
              LAMBDA card : ~\E dir \in DirSet \ {"W"} :
                                dir # fourth_dir /\ has_card(deal[dir], card))

\* Every card of the deck that no other direction holds, in scan order.
calculate_fourth_hand(deal, fourth_dir) ==
    SelectSeq(AllCards,
              LAMBDA card : ~\E dir \in DirSet :
                                dir # fourth_dir /\ has_card(deal[dir], card))

LinDirections == <<"S", "W", "N", "E">>

MdNone == [some |-> FALSE, dealer |-> "N", deal |-> NewDeal]

RECURSIVE SetListedHands(_, _, _)
SetListedHands(hand_strs, i, deal) ==
    IF i > 3 \/ i > Len(hand_strs) THEN deal
    ELSE SetListedHands(hand_strs, i + 1,
                        set_hand(deal, LinDirections[i], parse_lin_hand(hand_strs[i])))

parse_md(md_str) ==
    IF md_str = <<>> THEN MdNone
    ELSE IF md_str[1] \notin {"1", "2", "3", "4"} THEN MdNone
    ELSE LET dealer == CASE md_str[1] = "1" -> "S"
                         [] md_str[1] = "2" -> "W"
                         [] md_str[1] = "3" -> "N"
                         [] md_str[1] = "4" -> "E"
             hand_strs == Split(Tail(md_str), ",")
         IN  IF Len(hand_strs) < 3 THEN MdNone
             ELSE LET listed == SetListedHands(hand_strs, 1, NewDeal)
                  IN  [some |-> TRUE, dealer |-> dealer,
                       deal |-> set_hand(listed, LinDirections[4],
                                    calculate_fourth_hand(listed, LinDirections[4]))]

parse_sv(sv) ==
    LET l == ToLowercase(sv)
    IN  IF l \in {<<"o">>, <<"0">>, <<"-">>} THEN "None"
        ELSE IF l \in {<<"n">>, <<"n", "s">>} THEN "NorthSouth"
        ELSE IF l \in {<<"e">>, <<"e", "w">>} THEN "EastWest"
        ELSE IF l \in {<<"b">>, <<"b", "o", "t", "h">>, <<"a", "l", "l">>} THEN "Both"
        ELSE "None"

\* parse_card: suit character then rank character; further characters ignored.
parse_card(card_str) ==
    IF Len(card_str) < 2 \/ ToUpperChar(card_str[1]) \notin SuitSet
       \/ RankFromChar(card_str[2]) = 0
    THEN [some |-> FALSE, card |-> Card("S", MinRank)]
    ELSE [some |-> TRUE, card |-> Card(ToUpperChar(card_str[1]), RankFromChar(card_str[2]))]

ReplacePlus(s) == [i \in 1..Len(s) |-> IF s[i] = "+" THEN " " ELSE s[i]]

RECURSIVE DecimalValue(_)
DecimalValue(ds) ==
    IF ds = <<>> THEN 0
    ELSE 10 * DecimalValue(SubSeq(ds, 1, Len(ds) - 1))
         + (CHOOSE v \in 0..9 : DigitsOf(v) = <<ds[Len(ds)]>>)

\* str::parse::<u8>().ok(): -1 stands for None.
ParseU8(s) ==
    LET body == IF s # <<>> /\ s[1] = "+" THEN Tail(s) ELSE s
    IN  IF ParsesAsUsize(s) /\ DecimalValue(body) <= 255 THEN DecimalValue(body) ELSE -1

NoAnnotation == [some |-> FALSE, text |-> <<>>]

LinInit ==
    [player_names |-> <<<<>>, <<>>, <<>>, <<>>>>, dealer |-> "N", deal |-> NewDeal,
     vulnerability |-> "None", board_header |-> [some |-> FALSE, text |-> <<>>],
     auction |-> <<>>, play |-> <<>>, claim |-> -1]

\* The arms of parse_lin with a rejected md value resetting the dealer and
\* the deal.
LinApply_MdRejectResets(st, key, value) ==
    CASE key = <<"p", "n">> ->
            LET names == Split(value, ",")
            IN  [st EXCEPT !.player_names =
                    [j \in 1..4 |-> IF j <= Len(names) THEN names[j] ELSE @[j]]]
      [] key = <<"m", "d">> ->
            LET md == parse_md(value)
            IN  [st EXCEPT !.dealer = md.dealer, !.deal = md.deal]
      [] key = <<"s", "v">> -> [st EXCEPT !.vulnerability = parse_sv(value)]
      [] key = <<"a", "h">> ->
            [st EXCEPT !.board_header = [some |-> TRUE, text |-> ReplacePlus(value)]]
      [] key = <<"m", "b">> ->
            [st EXCEPT !.auction = Append(@,
                [bid |-> IF EndsWith(value, "!") THEN TrimEndMatches(value, "!") ELSE value,
                 alert |-> EndsWith(value, "!"), annotation |-> NoAnnotation])]
      [] key = <<"a", "n">> ->
            IF st.auction = <<>> THEN st
            ELSE [st EXCEPT !.auction[Len(st.auction)].annotation =
                                [some |-> TRUE, text |-> ReplacePlus(value)]]
      [] key = <<"p", "c">> ->
            LET pc == parse_card(value)
            IN  IF pc.some THEN [st EXCEPT !.play = Append(@, pc.card)] ELSE st
      [] key = <<"m", "c">> -> [st EXCEPT !.claim = ParseU8(value)]
      [] OTHER -> st

\* The arms of parse_lin with an setting the annotation of every entry of
\* the auction.
LinApply_AnAnnotatesAll(st, key, value) ==
    CASE key = <<"p", "n">> ->
            LET names == Split(value, ",")
            IN  [st EXCEPT !.player_names =
                    [j \in 1..4 |-> IF j <= Len(names) THEN names[j] ELSE @[j]]]
      [] key = <<"m", "d">> ->
            LET md == parse_md(value)
            IN  IF md.some THEN [st EXCEPT !.dealer = md.dealer, !.deal = md.deal] ELSE st
      [] key = <<"s", "v">> -> [st EXCEPT !.vulnerability = parse_sv(value)]
      [] key = <<"a", "h">> ->
            [st EXCEPT !.board_header = [some |-> TRUE, text |-> ReplacePlus(value)]]
      [] key = <<"m", "b">> ->
            [st EXCEPT !.auction = Append(@,
                [bid |-> IF EndsWith(value, "!") THEN TrimEndMatches(value, "!") ELSE value,
                 alert |-> EndsWith(value, "!"), annotation |-> NoAnnotation])]
      [] key = <<"a", "n">> ->
            [st EXCEPT !.auction = [k \in 1..Len(st.auction) |->
                [st.auction[k] EXCEPT !.annotation =
                    [some |-> TRUE, text |-> ReplacePlus(value)]]]]
      [] key = <<"p", "c">> ->
            LET pc == parse_card(value)
            IN  IF pc.some THEN [st EXCEPT !.play = Append(@, pc.card)] ELSE st
      [] key = <<"m", "c">> -> [st EXCEPT !.claim = ParseU8(value)]
      [] OTHER -> st

\* One iteration of the token loop of parse_lin on a recognized key that has
\* a value token: the accumulator after the key at index i (1-based).
LinApply(st, key, value) ==
    CASE key = <<"p", "n">> ->
            LET names == Split(value, ",")
            IN  [st EXCEPT !.player_names =
                    [j \in 1..4 |-> IF j <= Len(names) THEN names[j] ELSE @[j]]]
      [] key = <<"m", "d">> ->
            LET md == parse_md(value)
            IN  IF md.some THEN [st EXCEPT !.dealer = md.dealer, !.deal = md.deal] ELSE st
      [] key = <<"s", "v">> -> [st EXCEPT !.vulnerability = parse_sv(value)]
      [] key = <<"a", "h">> ->
            [st EXCEPT !.board_header = [some |-> TRUE, text |-> ReplacePlus(value)]]
      [] key = <<"m", "b">> ->
            [st EXCEPT !.auction = Append(@,
                [bid |-> IF EndsWith(value, "!") THEN TrimEndMatches(value, "!") ELSE value,
                 alert |-> EndsWith(value, "!"), annotation |-> NoAnnotation])]
      [] key = <<"a", "n">> ->
            IF st.auction = <<>> THEN st
            ELSE [st EXCEPT !.auction[Len(st.auction)].annotation =
                                [some |-> TRUE, text |-> ReplacePlus(value)]]
      [] key = <<"p", "c">> ->
            LET pc == parse_card(value)
            IN  IF pc.some THEN [st EXCEPT !.play = Append(@, pc.card)] ELSE st
      [] key = <<"m", "c">> -> [st EXCEPT !.claim = ParseU8(value)]
      [] OTHER -> st

LinKeys == {<<"p", "n">>, <<"m", "d">>, <<"s", "v">>, <<"a", "h">>,
            <<"m", "b">>, <<"a", "n">>, <<"p", "c">>, <<"m", "c">>}

\* The token loop of parse_lin; i is the 0-based index of the next token.
RECURSIVE LinLoop(_, _, _)
LinLoop(tokens, i, st) ==
    IF i >= Len(tokens) THEN st
    ELSE LET token == Trim(tokens[i + 1])
         IN  IF token \in LinKeys /\ i + 1 < Len(tokens)
             THEN LinLoop(tokens, i + 2, LinApply(st, token, tokens[i + 2]))
             ELSE LinLoop(tokens, i + 1, st)

parse_lin(lin_str) == LinLoop(Split(lin_str, "|"), 0, LinInit)

\* The value parse_lin returns: Ok(LinData) on every path.
parse_lin_result(lin_str) == [ok |-> TRUE, data |-> parse_lin(lin_str)]

\* The 1-based positions at which the token loop of parse_lin reads a
\* recognized key together with the token after it as its value.
RECURSIVE KeyPositionsFrom(_, _)
KeyPositionsFrom(tokens, i) ==
    IF i > Len(tokens) THEN <<>>
    ELSE IF Trim(tokens[i]) \in LinKeys /\ i < Len(tokens)
    THEN <<i>> \o KeyPositionsFrom(tokens, i + 2)
    ELSE KeyPositionsFrom(tokens, i + 1)

(***************************************************************************)
(* reader.rs: DealReader, the streaming reader with format auto-detection. *)
(* The line source is a sequence of entries: a line of text (with its      *)
(* newline), or IoFailure for a read that returns an I/O error.            *)
(***************************************************************************)
IoFailure == <<"io error">>

\* DealReader::read_line: "eof", "err" or "line" together with line_buf.
read_line(src, st) ==
    IF st.pos >= Len(src) THEN [res |-> "eof", buf |-> <<>>, st |-> st]
    ELSE IF src[st.pos + 1] = IoFailure
    THEN [res |-> "err", buf |-> <<>>, st |-> [st EXCEPT !.pos = @ + 1]]
    ELSE [res |-> "line", buf |-> src[st.pos + 1],
          st |-> [st EXCEPT !.pos = @ + 1, !.line_number = @ + 1]]

DummyHeader ==
    <<" ", " ", " ", "1", ".", NL>>

NoItem == [kind |-> "None", deal |-> NewDeal]
OkItem(deal) == [kind |-> "Ok", deal |-> deal]
ErrItem == [kind |-> "Err", deal |-> NewDeal]
IoErrItem == [kind |-> "IoErr", deal |-> NewDeal]

\* The read loop of try_read_printall: pull lines until 4 are held.
RECURSIVE ReadSuitLines(_, _, _)
ReadSuitLines(src, st, suit_lines) ==
    IF Len(suit_lines) = 4 THEN [res |-> "full", lines |-> suit_lines, st |-> st]
    ELSE LET r == read_line(src, st)
         IN  IF r.res = "line" THEN ReadSuitLines(src, r.st, Append(suit_lines, r.buf))
             ELSE [res |-> r.res, lines |-> suit_lines, st |-> r.st]

\* try_read_printall that ends the sequence when the block fails to decode.
try_read_printall_FailEnds(src, st) ==
    LET r == ReadSuitLines(src, st, <<>>)
    IN  IF r.res = "eof" THEN [some |-> FALSE, item |-> NoItem, st |-> r.st]
        ELSE IF r.res = "err" THEN [some |-> TRUE, item |-> IoErrItem, st |-> r.st]
        ELSE LET parsed == parse_printall(<<DummyHeader>> \o r.lines)
             IN  IF parsed.ok
                 THEN [some |-> TRUE, item |-> OkItem(parsed.deal),
                       st |-> [r.st EXCEPT !.deals_read = @ + 1]]
                 ELSE [some |-> TRUE, item |-> NoItem, st |-> r.st]

\* try_read_printall that reports running out of input as a decode error.
try_read_printall_EofErr(src, st) ==
    LET r == ReadSuitLines(src, st, <<>>)
    IN  IF r.res = "eof" THEN [some |-> TRUE, item |-> ErrItem, st |-> r.st]
        ELSE IF r.res = "err" THEN [some |-> TRUE, item |-> IoErrItem, st |-> r.st]
        ELSE LET parsed == parse_printall(<<DummyHeader>> \o r.lines)
             IN  IF parsed.ok
                 THEN [some |-> TRUE, item |-> OkItem(parsed.deal),
                       st |-> [r.st EXCEPT !.deals_read = @ + 1]]
                 ELSE [some |-> TRUE, item |-> ErrItem, st |-> r.st]

\* try_read_printall that does not count the deal of a decoded block.
try_read_printall_Uncounted(src, st) ==
    LET r == ReadSuitLines(src, st, <<>>)
    IN  IF r.res = "eof" THEN [some |-> FALSE, item |-> NoItem, st |-> r.st]
        ELSE IF r.res = "err" THEN [some |-> TRUE, item |-> IoErrItem, st |-> r.st]
        ELSE LET parsed == parse_printall(<<DummyHeader>> \o r.lines)
             IN  IF parsed.ok
                 THEN [some |-> TRUE, item |-> OkItem(parsed.deal), st |-> r.st]
                 ELSE [some |-> TRUE, item |-> ErrItem, st |-> r.st]

\* DealReader::try_read_printall: some = FALSE stands for None.
try_read_printall(src, st) ==
    LET r == ReadSuitLines(src, st, <<>>)
    IN  IF r.res = "eof" THEN [some |-> FALSE, item |-> NoItem, st |-> r.st]
        ELSE IF r.res = "err" THEN [some |-> TRUE, item |-> IoErrItem, st |-> r.st]
        ELSE LET parsed == parse_printall(<<DummyHeader>> \o r.lines)
             IN  IF parsed.ok
                 THEN [some |-> TRUE, item |-> OkItem(parsed.deal),
                       st |-> [r.st EXCEPT !.deals_read = @ + 1]]
                 ELSE [some |-> TRUE, item |-> ErrItem, st |-> r.st]

\* is_board_number_line without the check that an integer precedes the '.'.
is_board_number_line_AnyDot(line) ==
    LET trimmed == Trim(line)
    IN  EndsWith(trimmed, ".") /\ trimmed # <<>>

is_board_number_line(line) ==
    LET trimmed == Trim(line)
    IN  EndsWith(trimmed, ".")
        /\ trimmed # <<>>
        /\ ParsesAsUsize(Trim(SubSeq(trimmed, 1, Len(trimmed) - 1)))

DealTagPrefix == <<"[", "D", "e", "a", "l", " ">>

\* try_parse_pbn_deal_tag: strip '[' ']' "Deal " and the quotes, then from_pbn.
try_parse_pbn_deal_tag(line) ==
    LET none == [some |-> FALSE, deal |-> NewDeal]
    IN  IF ~(StartsWith(line, <<"[">>) /\ EndsWith(line, "]") /\ Len(line) >= 2) THEN none
        ELSE LET inner == SubSeq(line, 2, Len(line) - 1)
             IN  IF ~StartsWith(inner, Tail(DealTagPrefix)) THEN none
                 ELSE LET rest == SubSeq(inner, 6, Len(inner))
                      IN  IF ~(StartsWith(rest, <<"\"">>) /\ EndsWith(rest, "\"")
                               /\ Len(rest) >= 2)
                          THEN none
                          ELSE DealFromPbn(SubSeq(rest, 2, Len(rest) - 1))

\* The loop iteration with a blank line ending the sequence.
ScanLine_BlankEnds(src, st) ==
    LET r == read_line(src, st)
    IN  IF r.res = "eof" THEN [done |-> TRUE, item |-> NoItem, st |-> r.st]
        ELSE IF r.res = "err" THEN [done |-> TRUE, item |-> IoErrItem, st |-> r.st]
        ELSE LET line == Trim(r.buf)
                 one == parse_oneline(line)
                 tag == try_parse_pbn_deal_tag(line)
                 blk == try_read_printall(src, r.st)
                 emit(deal) == [done |-> TRUE, item |-> OkItem(deal),
                                st |-> [r.st EXCEPT !.deals_read = @ + 1]]
             IN  IF line = <<>> THEN [done |-> TRUE, item |-> NoItem, st |-> r.st]
                 ELSE IF one.ok THEN emit(one.deal)
                 ELSE IF StartsWith(line, DealTagPrefix) /\ tag.some THEN emit(tag.deal)
                 ELSE IF is_board_number_line(line) /\ blk.some
                 THEN [done |-> TRUE, item |-> blk.item, st |-> blk.st]
                 ELSE IF is_board_number_line(line)
                 THEN [done |-> FALSE, item |-> NoItem, st |-> blk.st]
                 ELSE [done |-> FALSE, item |-> NoItem, st |-> r.st]

\* The loop iteration with an unrecognized line surfaced as an error item.
ScanLine_UnrecognizedErr(src, st) ==
    LET r == read_line(src, st)
    IN  IF r.res = "eof" THEN [done |-> TRUE, item |-> NoItem, st |-> r.st]
        ELSE IF r.res = "err" THEN [done |-> TRUE, item |-> IoErrItem, st |-> r.st]
        ELSE LET line == Trim(r.buf)
                 one == parse_oneline(line)
                 tag == try_parse_pbn_deal_tag(line)
                 blk == try_read_printall(src, r.st)
                 emit(deal) == [done |-> TRUE, item |-> OkItem(deal),
                                st |-> [r.st EXCEPT !.deals_read = @ + 1]]
             IN  IF line = <<>> THEN [done |-> FALSE, item |-> NoItem, st |-> r.st]
                 ELSE IF one.ok THEN emit(one.deal)
                 ELSE IF StartsWith(line, DealTagPrefix) /\ tag.some THEN emit(tag.deal)
                 ELSE IF is_board_number_line(line) /\ blk.some
                 THEN [done |-> TRUE, item |-> blk.item, st |-> blk.st]
                 ELSE IF is_board_number_line(line)
                 THEN [done |-> FALSE, item |-> NoItem, st |-> blk.st]
                 ELSE [done |-> TRUE, item |-> ErrItem, st |-> r.st]

\* The loop iteration with the 4-line lookahead read before the single-line
\* decoders are tried, so that an accepted line also consumes 4 lines.
ScanLine_LookaheadFirst(src, st) ==
    LET r == read_line(src, st)
    IN  IF r.res = "eof" THEN [done |-> TRUE, item |-> NoItem, st |-> r.st]
        ELSE IF r.res = "err" THEN [done |-> TRUE, item |-> IoErrItem, st |-> r.st]
        ELSE LET line == Trim(r.buf)
                 one == parse_oneline(line)
                 tag == try_parse_pbn_deal_tag(line)
                 blk == try_read_printall(src, r.st)
                 emit(deal) == [done |-> TRUE, item |-> OkItem(deal),
                                st |-> [blk.st EXCEPT !.deals_read = r.st.deals_read + 1]]
             IN  IF line = <<>> THEN [done |-> FALSE, item |-> NoItem, st |-> r.st]
                 ELSE IF one.ok THEN emit(one.deal)
                 ELSE IF StartsWith(line, DealTagPrefix) /\ tag.some THEN emit(tag.deal)
                 ELSE IF is_board_number_line(line) /\ blk.some
                 THEN [done |-> TRUE, item |-> blk.item, st |-> blk.st]
                 ELSE IF is_board_number_line(line)
                 THEN [done |-> FALSE, item |-> NoItem, st |-> blk.st]
                 ELSE [done |-> FALSE, item |-> NoItem, st |-> r.st]

\* The loop iteration with the lines of a block that fails to decode offered
\* to the cascade again.
ScanLine_ReplayOnFail(src, st) ==
    LET r == read_line(src, st)
    IN  IF r.res = "eof" THEN [done |-> TRUE, item |-> NoItem, st |-> r.st]
        ELSE IF r.res = "err" THEN [done |-> TRUE, item |-> IoErrItem, st |-> r.st]
        ELSE LET line == Trim(r.buf)
                 one == parse_oneline(line)
                 tag == try_parse_pbn_deal_tag(line)
                 blk == try_read_printall(src, r.st)
                 emit(deal) == [done |-> TRUE, item |-> OkItem(deal),
                                st |-> [r.st EXCEPT !.deals_read = @ + 1]]
             IN  IF line = <<>> THEN [done |-> FALSE, item |-> NoItem, st |-> r.st]
                 ELSE IF one.ok THEN emit(one.deal)
                 ELSE IF StartsWith(line, DealTagPrefix) /\ tag.some THEN emit(tag.deal)
                 ELSE IF is_board_number_line(line) /\ blk.some /\ blk.item.kind = "Err"
                 THEN [done |-> FALSE, item |-> NoItem, st |-> r.st]
                 ELSE IF is_board_number_line(line) /\ blk.some
                 THEN [done |-> TRUE, item |-> blk.item, st |-> blk.st]
                 ELSE IF is_board_number_line(line)
                 THEN [done |-> FALSE, item |-> NoItem, st |-> blk.st]
                 ELSE [done |-> FALSE, item |-> NoItem, st |-> r.st]

\* The loop iteration with an unrecognized line ending the sequence.
ScanLine_UnrecognizedEnds(src, st) ==
    LET r == read_line(src, st)
    IN  IF r.res = "eof" THEN [done |-> TRUE, item |-> NoItem, st |-> r.st]
        ELSE IF r.res = "err" THEN [done |-> TRUE, item |-> IoErrItem, st |-> r.st]
        ELSE LET line == Trim(r.buf)
                 one == parse_oneline(line)
                 tag == try_parse_pbn_deal_tag(line)
                 blk == try_read_printall(src, r.st)
                 emit(deal) == [done |-> TRUE, item |-> OkItem(deal),
                                st |-> [r.st EXCEPT !.deals_read = @ + 1]]
             IN  IF line = <<>> THEN [done |-> FALSE, item |-> NoItem, st |-> r.st]
                 ELSE IF one.ok THEN emit(one.deal)
                 ELSE IF StartsWith(line, DealTagPrefix) /\ tag.some THEN emit(tag.deal)
                 ELSE IF is_board_number_line(line) /\ blk.some
                 THEN [done |-> TRUE, item |-> blk.item, st |-> blk.st]
                 ELSE IF is_board_number_line(line)
                 THEN [done |-> FALSE, item |-> NoItem, st |-> blk.st]
                 ELSE [done |-> TRUE, item |-> NoItem, st |-> r.st]

\* One iteration of the loop of Iterator::next: done = FALSE means the loop
\* goes round again from the returned state.
ScanLine(src, st) ==
    LET r == read_line(src, st)
    IN  IF r.res = "eof" THEN [done |-> TRUE, item |-> NoItem, st |-> r.st]
        ELSE IF r.res = "err" THEN [done |-> TRUE, item |-> IoErrItem, st |-> r.st]
        ELSE LET line == Trim(r.buf)
                 one == parse_oneline(line)
                 tag == try_parse_pbn_deal_tag(line)
                 blk == try_read_printall(src, r.st)
                 emit(deal) == [done |-> TRUE, item |-> OkItem(deal),
                                st |-> [r.st EXCEPT !.deals_read = @ + 1]]
             IN  IF line = <<>> THEN [done |-> FALSE, item |-> NoItem, st |-> r.st]
                 ELSE IF one.ok THEN emit(one.deal)
                 ELSE IF StartsWith(line, DealTagPrefix) /\ tag.some THEN emit(tag.deal)
                 ELSE IF is_board_number_line(line) /\ blk.some
                 THEN [done |-> TRUE, item |-> blk.item, st |-> blk.st]
                 ELSE IF is_board_number_line(line)
                 THEN [done |-> FALSE, item |-> NoItem, st |-> blk.st]
                 ELSE [done |-> FALSE, item |-> NoItem, st |-> r.st]

\* Iterator::next for DealReader: the item returned and the reader after it.
RECURSIVE next(_, _)
next(src, st) ==
    LET r == ScanLine(src, st)
    IN  IF r.done THEN r ELSE next(src, r.st)

(***************************************************************************)
(* pbn/reader.rs: the tag-based notation, one [Name "value"] tag per line, *)
(* boards separated by blank lines.  A Board (crate bridge_types) is a     *)
(* record of optional fields.                                              *)
(***************************************************************************)
NoText == [some |-> FALSE, text |-> <<>>]

SomeText(t) == [some |-> TRUE, text |-> t]

\* Board::new: number -1 and dealer "" stand for None.
NewBoard ==
    [number |-> -1, dealer |-> "", vulnerable |-> "None", deal |-> NewDeal,
     event |-> NoText, site |-> NoText, date |-> NoText,
     double_dummy_tricks |-> NoText, optimum_score |-> NoText,
     par_contract |-> NoText]

\* Direction::from_char: "" stands for None.
DirectionFromChar(c) == IF ToUpperChar(c) \in DirSet THEN ToUpperChar(c) ELSE ""

\* Vulnerability::from_pbn(..).unwrap_or_default().
VulnerabilityFromPbn(value) ==
    IF value = <<"N", "S">> THEN "NorthSouth"
    ELSE IF value = <<"E", "W">> THEN "EastWest"
    ELSE IF value \in {<<"A", "l", "l">>, <<"B", "o", "t", "h">>} THEN "Both"
    ELSE "None"

\* u32::MAX, 4294967295, digit by digit.
U32MaxDigits == <<"4", "2", "9", "4", "9", "6", "7", "2", "9", "5">>

Contains(s, c) == \E i \in 1..Len(s) : s[i] = c

\* str::find(c): the 0-based index of the first c, -1 when there is none.
Find(s, c) ==
    IF ~Contains(s, c) THEN -1
    ELSE (CHOOSE i \in 1..Len(s) : s[i] = c /\ \A j \in 1..(i - 1) : s[j] # c) - 1

TagNone == [res |-> "None", name |-> <<>>, value |-> <<>>]

\* parse_tag_pair: res is "Some", "None", or "panic" when the value slice
\* rest[1..rest.len() - 1] is taken of a rest that is a single '"'.
parse_tag_pair(l) ==
    LET line == Trim(l)
    IN  IF ~StartsWith(line, <<"[">>) \/ ~EndsWith(line, "]") THEN TagNone
        ELSE LET inner == SubSeq(line, 2, Len(line) - 1)
                 space_pos == Find(inner, " ")
             IN  IF space_pos = -1 THEN TagNone
                 ELSE LET name == Trim(SubSeq(inner, 1, space_pos))
                          rest == Trim(SubSeq(inner, space_pos + 1, Len(inner)))
                      IN  IF ~StartsWith(rest, <<"\"">>) \/ ~EndsWith(rest, "\"")
                          THEN TagNone
                          ELSE IF Len(rest) < 2
                          THEN [res |-> "panic", name |-> name, value |-> <<>>]
                          ELSE [res |-> "Some", name |-> name,
                                value |-> SubSeq(rest, 2, Len(rest) - 1)]


\* str::parse::<u32>(): -1 stands for Err.
ParseU32(s) ==
    LET body == IF s # <<>> /\ s[1] = "+" THEN Tail(s) ELSE s
    IN  IF /\ body # <<>>
           /\ \A i \in 1..Len(body) : body[i] \in Digits
           /\ FitsMax(body, U32MaxDigits)
        THEN DecimalValue(body) ELSE -1

\* apply_tag_to_board: the board after the tag.
apply_tag_to_board(board, tag) ==
    CASE tag.name = <<"B", "o", "a", "r", "d">> ->
            IF ParseU32(tag.value) # -1
            THEN [board EXCEPT !.number = ParseU32(tag.value)] ELSE board
      [] tag.name = <<"D", "e", "a", "l", "e", "r">> ->
            IF tag.value # <<>>
            THEN [board EXCEPT !.dealer = DirectionFromChar(tag.value[1])] ELSE board
      [] tag.name = <<"V", "u", "l", "n", "e", "r", "a", "b", "l", "e">> ->
            [board EXCEPT !.vulnerable = VulnerabilityFromPbn(tag.value)]
      [] tag.name = <<"D", "e", "a", "l">> ->
            IF DealFromPbn(tag.value).some
            THEN [board EXCEPT !.deal = DealFromPbn(tag.value).deal] ELSE board
      [] tag.name = <<"E", "v", "e", "n", "t">> ->
            IF tag.value # <<>> THEN [board EXCEPT !.event = SomeText(tag.value)] ELSE board
      [] tag.name = <<"S", "i", "t", "e">> ->
            IF tag.value # <<>> THEN [board EXCEPT !.site = SomeText(tag.value)] ELSE board
      [] tag.name = <<"D", "a", "t", "e">> ->
            IF tag.value # <<>> THEN [board EXCEPT !.date = SomeText(tag.value)] ELSE board
      [] tag.name = <<"D", "o", "u", "b", "l", "e", "D", "u", "m", "m", "y", "T", "r", "i", "c", "k", "s">> ->
            [board EXCEPT !.double_dummy_tricks = SomeText(tag.value)]
      [] tag.name = <<"O", "p", "t", "i", "m", "u", "m", "S", "c", "o", "r", "e">> ->
            [board EXCEPT !.optimum_score = SomeText(tag.value)]
      [] tag.name = <<"P", "a", "r", "C", "o", "n", "t", "r", "a", "c", "t">> ->
            [board EXCEPT !.par_contract = SomeText(tag.value)]
      [] OTHER -> board


\* The loop body of read_pbn with a blank line that closes a board whether
\* or not it has content.
PbnStep_BlankAlwaysCloses(st, l) ==
    LET line == Trim(l)
        tag == parse_tag_pair(line)
    IN  IF st.in_commentary
        THEN IF Contains(line, "}") THEN [st EXCEPT !.in_commentary = FALSE] ELSE st
        ELSE IF StartsWith(line, <<"{">>)
        THEN IF ~Contains(line, "}") THEN [st EXCEPT !.in_commentary = TRUE] ELSE st
        ELSE IF line = <<>>
        THEN [st EXCEPT !.boards = Append(@, st.current_board),
                        !.current_board = NewBoard, !.has_content = FALSE]
        ELSE IF StartsWith(line, <<";">>) \/ StartsWith(line, <<"%">>) THEN st
        ELSE IF StartsWith(line, <<"[">>) /\ tag.res = "panic"
        THEN [st EXCEPT !.panic = TRUE]
        ELSE IF StartsWith(line, <<"[">>) /\ tag.res = "Some"
        THEN [st EXCEPT !.has_content = TRUE,
                        !.current_board = apply_tag_to_board(@, tag)]
        ELSE st

\* The loop body of read_pbn for one line: the accumulators after it;
\* panic is set when parse_tag_pair panics.
PbnStep(st, l) ==
    LET line == Trim(l)
        tag == parse_tag_pair(line)
    IN  IF st.in_commentary
        THEN IF Contains(line, "}") THEN [st EXCEPT !.in_commentary = FALSE] ELSE st
        ELSE IF StartsWith(line, <<"{">>)
        THEN IF ~Contains(line, "}") THEN [st EXCEPT !.in_commentary = TRUE] ELSE st
        ELSE IF line = <<>>
        THEN IF st.has_content
             THEN [st EXCEPT !.boards = Append(@, st.current_board),
                             !.current_board = NewBoard, !.has_content = FALSE]
             ELSE st
        ELSE IF StartsWith(line, <<";">>) \/ StartsWith(line, <<"%">>) THEN st
        ELSE IF StartsWith(line, <<"[">>) /\ tag.res = "panic"
        THEN [st EXCEPT !.panic = TRUE]
        ELSE IF StartsWith(line, <<"[">>) /\ tag.res = "Some"
        THEN [st EXCEPT !.has_content = TRUE,
                        !.current_board = apply_tag_to_board(@, tag)]
        ELSE st

\* Each line followed by its newline.
JoinLines(ls) == Flatten([k \in 1..Len(ls) |-> ls[k] \o <<NL>>])

(***************************************************************************)
(* pbn/writer.rs: the writer of the tag-based notation.                    *)
(***************************************************************************)
\* Vulnerability::to_pbn.
VulnerabilityToPbn(v) ==
    CASE v = "NorthSouth" -> <<"N", "S">>
      [] v = "EastWest" -> <<"E", "W">>
      [] v = "Both" -> <<"A", "l", "l">>
      [] OTHER -> <<"N", "o", "n", "e">>

\* Deal::to_pbn: "<dir>:" and the 4 hands in dot notation, clockwise from
\* first_dir, separated by spaces.
DealToPbn(deal, first_dir) ==
    LET first == CHOOSE k \in 1..4 : Clockwise[k] = first_dir
    IN  <<first_dir, ":">>
        \o Flatten([j \in 1..4 |->
               (IF j = 1 THEN <<>> ELSE <<" ">>)
               \o format_hand(deal[Clockwise[((first + j - 2) % 4) + 1]])])

\* format!("[Name \"{}\"]", value)
TagLine(name, value) == <<"[">> \o name \o <<" ", "\"">> \o value \o <<"\"", "]">>

\* board_to_pbn: the tag lines of one board, each ended by a newline.
board_to_pbn(board) ==
    LET text(o) == IF o.some THEN o.text ELSE <<>>
        first_dir == IF board.dealer # "" THEN board.dealer ELSE "N"
        lines ==
            <<TagLine(<<"E", "v", "e", "n", "t">>, text(board.event)),
              TagLine(<<"S", "i", "t", "e">>, text(board.site)),
              TagLine(<<"D", "a", "t", "e">>, text(board.date))>>
            \o (IF board.number # -1
                THEN <<TagLine(<<"B", "o", "a", "r", "d">>, DigitsOf(board.number))>> ELSE <<>>)
            \o <<TagLine(<<"W", "e", "s", "t">>, <<>>), TagLine(<<"N", "o", "r", "t", "h">>, <<>>),
                 TagLine(<<"E", "a", "s", "t">>, <<>>), TagLine(<<"S", "o", "u", "t", "h">>, <<>>)>>
            \o (IF board.dealer # ""
                THEN <<TagLine(<<"D", "e", "a", "l", "e", "r">>, <<board.dealer>>)>> ELSE <<>>)
            \o <<TagLine(<<"V", "u", "l", "n", "e", "r", "a", "b", "l", "e">>, VulnerabilityToPbn(board.vulnerable)),
                 TagLine(<<"D", "e", "a", "l">>, DealToPbn(board.deal, first_dir)),
                 TagLine(<<"S", "c", "o", "r", "i", "n", "g">>, <<>>), TagLine(<<"D", "e", "c", "l", "a", "r", "e", "r">>, <<>>),
                 TagLine(<<"C", "o", "n", "t", "r", "a", "c", "t">>, <<>>), TagLine(<<"R", "e", "s", "u", "l", "t">>, <<>>)>>
            \o (IF board.double_dummy_tricks.some
                THEN <<TagLine(<<"D", "o", "u", "b", "l", "e", "D", "u", "m", "m", "y", "T", "r", "i", "c", "k", "s">>, board.double_dummy_tricks.text)>>
                ELSE <<>>)
            \o (IF board.optimum_score.some
                THEN <<TagLine(<<"O", "p", "t", "i", "m", "u", "m", "S", "c", "o", "r", "e">>, board.optimum_score.text)>> ELSE <<>>)
            \o (IF board.par_contract.some
                THEN <<TagLine(<<"P", "a", "r", "C", "o", "n", "t", "r", "a", "c", "t">>, board.par_contract.text)>> ELSE <<>>)
    IN  JoinLines(lines)

\* write_pbn: the two directive lines, a blank line, then the boards with a
\* blank line between them.
write_pbn(bs) ==
    <<"%", " ", "P", "B", "N", " ", "2", ".", "1">> \o <<NL>> \o <<"%", " ", "E", "X", "P", "O", "R", "T">> \o <<NL>> \o <<NL>>
    \o Flatten([i \in 1..Len(bs) |->
           (IF i > 1 THEN <<NL>> ELSE <<>>) \o board_to_pbn(bs[i])])

PbnOff ==
    /\ pbn_pc = "off" /\ pbn_content = <<>> /\ pbn_pos = 0 /\ boards = <<>>
    /\ current_board = NewBoard /\ has_content = FALSE /\ in_commentary = FALSE
    /\ wr_boards = <<>>

OlOff ==
    /\ ol_pc = "off" /\ ol_deal = NewDeal /\ ol_text = <<>> /\ ol_result = OnelineError

(***************************************************************************)
(* Inputs of the column-layout round trip: a deal is built from one split  *)
(* per suit, the numbers of cards North, East, South and West hold of the  *)
(* suit, dealt from the ace downwards and listed lowest card first.        *)
(***************************************************************************)
SuitSplits ==
    {<<3, 3, 3, 4>>, <<4, 3, 3, 3>>, <<10, 3, 0, 0>>, <<11, 2, 0, 0>>,
     <<0, 0, 2, 11>>, <<0, 5, 0, 3>>, <<0, 0, 0, 0>>}

BoardNumbers == {1, 42, 12345}

RECURSIVE SumTo(_, _)
SumTo(q, k) == IF k <= 0 THEN 0 ELSE q[k] + SumTo(q, k - 1)

\* The cards direction number k gets of suit s under split q.
SplitCards(q, k, s) ==
    [j \in 1..q[k] |-> Card(s, MaxRank - SumTo(q, k) + j)]

DealOfSplits(f) ==
    [d \in DirSet |->
        LET k == CHOOSE k \in 1..4 : Positions[k] = d
        IN  Flatten([i \in 1..4 |-> SplitCards(f[i], k, SuitOrder[i])])]

PaDeals ==
    {DealOfSplits(f) : f \in {g \in [1..4 -> SuitSplits] :
        \A k \in 1..4 : g[1][k] + g[2][k] + g[3][k] + g[4][k] <= 13}}

PaOff ==
    /\ pa_pc = "off" /\ pa_deal = NewDeal /\ pa_board = 0
    /\ pa_text = <<>> /\ pa_result = PrintallError("")

LinOff == lin_pc = "off" /\ lin_in = <<>> /\ lin_result = LinInit

RdOff ==
    /\ rd_pc = "off" /\ rd_units = <<>> /\ rd_src = <<>> /\ rd_pos = 0
    /\ line_number = 0 /\ deals_read = 0 /\ rd_items = <<>>

PaInit ==
    /\ pa_pc = "start" /\ pa_deal \in PaDeals /\ pa_board \in BoardNumbers
    /\ pa_text = <<>> /\ pa_result = PrintallError("")
    /\ LinOff /\ RdOff /\ PbnOff /\ OlOff

\* format_printall applied to the deal.
PaFormat ==
    /\ pa_pc = "start"
    /\ pa_text' = format_printall(pa_deal, pa_board)
    /\ pa_pc' = "formatted"
    /\ UNCHANGED <<pa_deal, pa_board, pa_result, lin_vars, rd_vars, pbn_vars, ol_vars>>

\* parse_printall applied to the lines of the text.
PaParse ==
    /\ pa_pc = "formatted"
    /\ pa_result' = parse_printall(Lines(pa_text))
    /\ pa_pc' = "parsed"
    /\ UNCHANGED <<pa_deal, pa_board, pa_text, lin_vars, rd_vars, pbn_vars, ol_vars>>

PaNext == PaFormat \/ PaParse

SpecPrintall == PaInit /\ [][PaNext]_vars

SuitCardsOf(hand, s) == HandCards(cards_in_suit(hand, s))

\* C1: for every deal with pairwise disjoint hands of at most 13 cards and
\* every board number, parse_printall on the lines of format_printall
\* succeeds and returns, for every direction and suit, the same set of cards.
C1_RoundTrip ==
    pa_pc = "parsed" =>
        /\ pa_result.ok
        /\ \A d \in DirSet : \A s \in SuitSet :
              SuitCardsOf(pa_result.deal[d], s) = SuitCardsOf(pa_deal[d], s)

(***************************************************************************)
(* Inputs of parse_lin: an md value lists the South, West and North hands. *)
(* A listing is built from one split per suit (the numbers of cards South, *)
(* West and North list of the suit, dealt from the ace downwards); "across"*)
(* makes West list South's first card too.                                 *)
(***************************************************************************)
LinSplits ==
    {<<13, 0, 0>>, <<0, 0, 0>>, <<4, 3, 3>>, <<3, 4, 3>>, <<3, 3, 4>>, <<3, 3, 3>>}

LinExtras == {"none", "across"}

LinDealers == {"3", "4"}

ListingOfSplits(f, extra) ==
    LET base == [k \in 1..3 |-> Flatten([i \in 1..4 |-> SplitCards(f[i], k, SuitOrder[i])])]
    IN  IF base[1] = <<>> \/ extra = "none" THEN base
        ELSE [base EXCEPT ![2] = Append(@, base[1][1])]

\* The text of one listed hand: a suit letter before each run of a suit.
LinHandText(cards) ==
    Flatten([i \in 1..Len(cards) |->
        IF i = 1 \/ cards[i - 1].suit # cards[i].suit
        THEN <<cards[i].suit, RankToChar(cards[i].rank)>>
        ELSE <<RankToChar(cards[i].rank)>>])

LinText(dealer, listed) ==
    <<"m", "d", "|", dealer>>
    \o LinHandText(listed[1]) \o <<",">>
    \o LinHandText(listed[2]) \o <<",">>
    \o LinHandText(listed[3]) \o <<",", "|">>

LinInputs ==
    {[dealer |-> dl, listed |-> ListingOfSplits(f, x)] :
        dl \in LinDealers, f \in [1..4 -> LinSplits], x \in LinExtras}

LinSpecInit ==
    /\ lin_pc = "start" /\ lin_in \in LinInputs /\ lin_result = LinInit
    /\ PaOff /\ RdOff /\ PbnOff /\ OlOff

\* parse_lin applied to the text of the input.
LinParse ==
    /\ lin_pc = "start"
    /\ lin_result' = parse_lin(LinText(lin_in.dealer, lin_in.listed))
    /\ lin_pc' = "done"
    /\ UNCHANGED <<lin_in, pa_vars, rd_vars, pbn_vars, ol_vars>>

LinNext == LinParse

SpecLin == LinSpecInit /\ [][LinNext]_vars

ListedDisjoint ==
    \A j, k \in 1..3 : j # k => HandCards(lin_in.listed[j]) \cap HandCards(lin_in.listed[k]) = {}

ListedCards == UNION {HandCards(lin_in.listed[k]) : k \in 1..3}

ListedTotal == Len(lin_in.listed[1]) + Len(lin_in.listed[2]) + Len(lin_in.listed[3])

NoRepeat(hand) == \A i, j \in 1..Len(hand) : hand[i] = hand[j] => i = j

EastIsComplement ==
    /\ HandCards(lin_result.deal["E"]) = Universe \ ListedCards
    /\ NoRepeat(lin_result.deal["E"])

PairwiseDisjoint(deal) ==
    \A d, e \in DirSet : d # e => HandCards(deal[d]) \cap HandCards(deal[e]) = {}

CompleteDeal(deal) ==
    /\ \A d \in DirSet : Len(deal[d]) = 13
    /\ PairwiseDisjoint(deal)
    /\ UNION {HandCards(deal[d]) : d \in DirSet} = Universe

\* C2: when the three listed hands are pairwise disjoint and together hold
\* exactly 39 cards, East is set to exactly the 13 cards that none of them
\* holds and the resulting deal is complete: four hands of 13, 52 cards, no
\* card in two hands.
C2_FourthHand ==
    (/\ lin_pc = "done"
     /\ ListedDisjoint
     /\ \A k \in 1..3 : NoRepeat(lin_in.listed[k])
     /\ ListedTotal = 39)
    => /\ EastIsComplement
       /\ Len(lin_result.deal["E"]) = 13
       /\ CompleteDeal(lin_result.deal)

\* C8: every hand of the deal parse_lin returns, the inferred East hand
\* included, holds at most 13 cards.
C8_HandSize ==
    lin_pc = "done" => \A d \in DirSet : Len(lin_result.deal[d]) <= 13

\* C9: in the deal parse_lin returns the four hands are pairwise disjoint
\* and no card occurs twice within a hand, also when the text lists the same
\* card in two hands.
C9_NoDuplicate ==
    lin_pc = "done" =>
        /\ PairwiseDisjoint(lin_result.deal)
        /\ \A d \in DirSet : NoRepeat(lin_result.deal[d])

\* C10: after the fourth hand is inferred from three pairwise disjoint
\* listed hands of any sizes, every card of the 52-card universe is held by
\* exactly one direction, and the inferred hand repeats no card.
C10_FiftyTwoDistinct ==
    (lin_pc = "done" /\ ListedDisjoint)
    => /\ \A c \in Universe :
              Cardinality({d \in DirSet : has_card(lin_result.deal[d], c)}) = 1
       /\ Cardinality(UNION {HandCards(lin_result.deal[d]) : d \in DirSet}) = 52
       /\ NoRepeat(lin_result.deal["E"])

\* Three disjoint listed hands that do not total 39, West's among them, and
\* an inferred East hand of another size than 13.
C10_Witness ==
    /\ lin_pc = "done" /\ ListedDisjoint
    /\ ListedTotal # 39 /\ lin_in.listed[2] # <<>>
    /\ Len(lin_result.deal["E"]) \notin {0, 13}

(***************************************************************************)
(* Inputs of the DealReader: a source is the concatenation of at most      *)
(* MaxUnits units, each a short run of lines.                              *)
(***************************************************************************)
MaxUnits == 3

MaxCalls == MaxUnits + 2

BlankLine ==
    <<NL>>

RecordA ==
    <<"n", " ", "A", "K", ".", "Q", ".", ".", " ", "e", " ", ".", ".", "3", "2", ".",
      " ", "s", " ", "Q", ".", "K", ".", "A", ".", "2", " ", "w", " ", "J", ".", "J",
      ".", "J", ".", "J", NL>>

RecordB ==
    <<" ", " ", "N", " ", "T", "9", "8", ".", ".", ".", " ", "E", " ", ".", "T", "9",
      "8", ".", ".", " ", "S", " ", ".", ".", "T", "9", "8", ".", " ", "W", " ", ".",
      ".", ".", "T", "9", "8", NL>>

BannerGenerated ==
    <<"G", "e", "n", "e", "r", "a", "t", "e", "d", " ", "1", "0", " ", "h", "a", "n",
      "d", "s", NL>>

BannerProduced ==
    <<"P", "r", "o", "d", "u", "c", "e", "d", " ", "1", ".", NL>>

BannerInitial ==
    <<"I", "n", "i", "t", "i", "a", "l", " ", "r", "a", "n", "d", "o", "m", " ", "s",
      "e", "e", "d", " ", "4", "2", NL>>

BannerTime ==
    <<"T", "i", "m", "e", " ", "n", "e", "e", "d", "e", "d", " ", "0", ".", "1", " ",
      "s", "e", "c", NL>>

HeaderLine ==
    <<" ", " ", "4", "2", ".", NL>>

BodyLine ==
    <<"A", " ", "K", " ", " ", " ", " ", " ", " ", " ", " ", " ", " ", " ", " ", " ",
      " ", " ", " ", " ", "Q", NL>>

BadBodyLine ==
    <<"A", " ", "X", NL>>

FnLine ==
    <<"F", "n", " ", "A", "K", ".", "Q", ".", ".", " ", "e", " ", ".", ".", "3", "2",
      ".", " ", "s", " ", "Q", ".", "K", ".", "A", ".", "2", " ", "w", " ", "J", ".",
      "J", ".", "J", ".", "J", NL>>

DealTagLine ==
    <<"[", "D", "e", "a", "l", " ", "\"", "N", ":", "A", "K", ".", "Q", ".", ".",
      " ", ".", ".", "3", "2", ".", " ", "Q", ".", "K", ".", "A", ".", "2", " ", "J",
      ".", "J", ".", "J", ".", "J", "\"", "]", NL>>

RecordADeal ==
    [N |-> <<Card("S", 14), Card("S", 13), Card("H", 12)>>,
     E |-> <<Card("D", 3), Card("D", 2)>>,
     S |-> <<Card("S", 12), Card("H", 13), Card("D", 14), Card("C", 2)>>,
     W |-> <<Card("S", 11), Card("H", 11), Card("D", 11), Card("C", 11)>>]

RecordBDeal ==
    [N |-> <<Card("S", 10), Card("S", 9), Card("S", 8)>>,
     E |-> <<Card("H", 10), Card("H", 9), Card("H", 8)>>,
     S |-> <<Card("D", 10), Card("D", 9), Card("D", 8)>>,
     W |-> <<Card("C", 10), Card("C", 9), Card("C", 8)>>]

GoodDeal ==
    DealOfSplits(<<<<3, 3, 3, 4>>, <<4, 3, 3, 3>>, <<0, 5, 0, 3>>, <<0, 0, 0, 0>>>>)

\* The 6 lines format_printall writes for GoodDeal, each with its newline.
GoodBlockLines ==
    LET ls == Lines(format_printall(GoodDeal, 1))
    IN  [i \in 1..Len(ls) |-> ls[i] \o <<NL>>]

UnitNames ==
    {"blank", "recA", "recB", "banners", "header",
     "goodBlock", "badBlock", "gapBlock", "dealTag", "fn", "ioFail"}

UnitLines(u) ==
    CASE u = "blank" -> <<BlankLine>>
      [] u = "recA" -> <<RecordA>>
      [] u = "recB" -> <<RecordB>>
      [] u = "banners" -> <<BannerGenerated, BannerProduced, BannerInitial, BannerTime>>
      [] u = "header" -> <<HeaderLine>>
      [] u = "goodBlock" -> GoodBlockLines
      [] u = "badBlock" -> <<HeaderLine, BodyLine, BadBodyLine, BlankLine, BodyLine>>
      [] u = "gapBlock" -> <<GoodBlockLines[1], BlankLine>> \o Tail(GoodBlockLines)
      [] u = "dealTag" -> <<DealTagLine>>
      [] u = "fn" -> <<FnLine>>
      [] u = "ioFail" -> <<IoFailure>>

SourceOf(units) == Flatten([i \in 1..Len(units) |-> UnitLines(units[i])])

RdInit ==
    /\ rd_pc = "iter"
    /\ rd_units \in UNION {[1..n -> UnitNames] : n \in 0..MaxUnits}
    /\ rd_src = SourceOf(rd_units)
    /\ rd_pos = 0 /\ line_number = 0 /\ deals_read = 0 /\ rd_items = <<>>
    /\ PaOff /\ LinOff /\ PbnOff /\ OlOff

\* One call of Iterator::next; rd_items records what each call returned, the
\* source positions before and after it and deals_read after it.
RdNext ==
    /\ rd_pc = "iter"
    /\ Len(rd_items) < MaxCalls
    /\ \E r \in {next(rd_src, [pos |-> rd_pos, line_number |-> line_number,
                               deals_read |-> deals_read])} :
           /\ rd_pos' = r.st.pos
           /\ line_number' = r.st.line_number
           /\ deals_read' = r.st.deals_read
           /\ rd_items' = Append(rd_items,
                  [kind |-> r.item.kind, deal |-> r.item.deal,
                   from |-> rd_pos, to |-> r.st.pos, dr |-> r.st.deals_read])
    /\ UNCHANGED <<rd_pc, rd_units, rd_src, pa_vars, lin_vars, pbn_vars, ol_vars>>

SpecReader == RdInit /\ [][RdNext]_vars

\* RdNext can be taken: next returns on every state, so this is ENABLED RdNext.
RdNextEnabled == rd_pc = "iter" /\ Len(rd_items) < MaxCalls

\* The caller keeps calling next: weak fairness of RdNext, WF_vars(RdNext)
\* written out with RdNextEnabled for ENABLED <<RdNext>>_vars.
SpecReaderFair ==
    SpecReader /\ ([]<>(~RdNextEnabled) \/ []<><<RdNext>>_vars)

NoIoError == \A i \in 1..Len(rd_src) : rd_src[i] # IoFailure

SameHands(d1, d2) ==
    \A d \in DirSet : Len(d1[d]) = Len(d2[d]) /\ HandCards(d1[d]) = HandCards(d2[d])

\* deals_read before call number i.
DealsBefore(i) == IF i = 1 THEN 0 ELSE rd_items[i - 1].dr

IsBlankLine(l) == l # IoFailure /\ Trim(l) = <<>>

IsRecordLine(l) == l # IoFailure /\ parse_oneline(Trim(l)).ok

RecordLines == SelectSeq(rd_src, IsRecordLine)

OnlyOnelineRecords ==
    \A i \in 1..Len(rd_src) : IsBlankLine(rd_src[i]) \/ IsRecordLine(rd_src[i])

\* C3: on a source holding only valid single-line records and blank lines,
\* the calls of next yield one Ok item per record, in the order of the
\* records, each with the hands parse_oneline gives for that record line, and
\* every call after them returns None.
C3_OnelineRecords ==
    OnlyOnelineRecords =>
        \A i \in 1..Len(rd_items) :
            IF i <= Len(RecordLines)
            THEN /\ rd_items[i].kind = "Ok"
                 /\ SameHands(rd_items[i].deal,
                              parse_oneline(Trim(RecordLines[i])).deal)
                 /\ rd_items[i].dr = i
            ELSE rd_items[i].kind = "None"

\* Two different records with a blank line before the second, both yielded
\* in order, and the iterator ended.
C3_Witness ==
    /\ OnlyOnelineRecords
    /\ Len(RecordLines) >= 2
    /\ \E i \in 2..Len(rd_src) : IsBlankLine(rd_src[i - 1]) /\ rd_src[i] = RecordB
    /\ Len(rd_items) > Len(RecordLines)
    /\ rd_items[1].deal = RecordADeal
    /\ rd_items[2].deal = RecordBDeal
    /\ rd_items[Len(rd_items)].kind = "None"

RecordUnits == {"recA", "recB", "goodBlock", "dealTag"}

UnitDeal(u) ==
    CASE u = "recA" -> RecordADeal
      [] u = "recB" -> RecordBDeal
      [] u = "goodBlock" -> GoodDeal
      [] u = "dealTag" -> RecordADeal

\* The deals of the valid records of the source, in order.
ExpectedDeals ==
    Flatten([i \in 1..Len(rd_units) |->
        IF rd_units[i] \in RecordUnits THEN <<UnitDeal(rd_units[i])>> ELSE <<>>])

RecordsAndBanners ==
    \A i \in 1..Len(rd_units) : rd_units[i] \in RecordUnits \cup {"banners", "blank"}

\* C4: on a source of valid records with banner lines (Generated, Produced,
\* Initial, Time) and blank lines between them, the calls of next yield
\* exactly the deals of the records, in order, all Ok, and None is returned
\* only once the whole input has been read.
C4_BannersSkipped ==
    RecordsAndBanners =>
        \A i \in 1..Len(rd_items) :
            IF i <= Len(ExpectedDeals)
            THEN /\ rd_items[i].kind = "Ok"
                 /\ SameHands(rd_items[i].deal, ExpectedDeals[i])
                 /\ rd_items[i].dr = i
            ELSE /\ rd_items[i].kind = "None"
                 /\ rd_items[i].to = Len(rd_src)

\* Banner lines between two records, one of them a column block, both
\* yielded and the iterator ended at the end of the input.
C4_Witness ==
    /\ RecordsAndBanners
    /\ \E i \in 2..Len(rd_units) - 1 :
          /\ rd_units[i] = "banners"
          /\ rd_units[i - 1] \in RecordUnits
          /\ rd_units[i + 1] = "goodBlock"
    /\ Len(rd_items) > Len(ExpectedDeals)
    /\ rd_items[Len(ExpectedDeals)].kind = "Ok"
    /\ rd_items[Len(rd_items)].kind = "None"

\* Call number i read a header-shaped line and then 4 lines that do not
\* decode as a column block.
FailedBlockCall(i) ==
    LET it == rd_items[i]
    IN  /\ it.to - it.from >= 5
        /\ \A k \in it.to - 4..it.to : rd_src[k] # IoFailure
        /\ is_board_number_line(Trim(rd_src[it.to - 4]))
        /\ ~parse_printall(<<DummyHeader>> \o SubSeq(rd_src, it.to - 3, it.to)).ok

\* Call number i ended on a unit that decodes to the deal it returned: a
\* single-line record, a Deal tag, or a header and its 4 suit lines.
DecodedCall(i) ==
    LET it == rd_items[i]
        line == Trim(rd_src[it.to])
        one == parse_oneline(line)
        tag == try_parse_pbn_deal_tag(line)
        blk == parse_printall(<<DummyHeader>> \o SubSeq(rd_src, it.to - 3, it.to))
    IN  /\ it.to > it.from
        /\ \/ one.ok /\ it.deal = one.deal
           \/ tag.some /\ it.deal = tag.deal
           \/ /\ it.to - it.from >= 5
              /\ is_board_number_line(Trim(rd_src[it.to - 4]))
              /\ blk.ok /\ it.deal = blk.deal

TruncatedCall(i) ==
    LET it == rd_items[i]
    IN  \E h \in it.from + 1..it.to :
            /\ \A k \in it.from + 1..Len(rd_src) : rd_src[k] # IoFailure
            /\ is_board_number_line(Trim(rd_src[h]))
            /\ \A k \in it.from + 1..h - 1 : ~is_board_number_line(Trim(rd_src[k]))
            /\ Len(rd_src) - h < 4

\* C7: a call that meets a header with fewer than 4 lines after it before
\* the end of the input returns None, not a deal and not an error, does not
\* increment deals_read, reads the input to its end, and every later call
\* returns None.
C7_GracefulTruncation ==
    \A i \in 1..Len(rd_items) :
        TruncatedCall(i) =>
            /\ rd_items[i].kind = "None"
            /\ rd_items[i].dr = DealsBefore(i)
            /\ rd_items[i].to = Len(rd_src)
            /\ \A j \in i..Len(rd_items) :
                  rd_items[j].kind = "None" /\ rd_items[j].dr = DealsBefore(i)

\* A deal yielded, then a header with some but fewer than 4 lines after it.
C7_Witness ==
    \E i \in 2..Len(rd_items) :
        /\ TruncatedCall(i)
        /\ rd_items[i - 1].kind = "Ok"
        /\ rd_items[i].to - rd_items[i].from >= 2
        /\ is_board_number_line(Trim(rd_src[rd_items[i].from + 1]))
        /\ rd_items[i].kind = "None"

(***************************************************************************)
(* Inputs of parse_lin as a token stream: at most MaxTokens tokens joined  *)
(* by '|'.                                                                 *)
(***************************************************************************)
MaxTokens == 4

LinTokens ==
    {<<"x", "x">>, <<"m", "b">>, <<"1", "C">>, <<"p", "c">>, <<"S", "A">>,
     <<"S", "X">>, <<"m", "d">>, <<"1", "S", "A", "X", ",", ",", ",">>}

\* The tokens joined by '|'.
JoinTokens(tokens) ==
    Flatten([k \in 1..Len(tokens) |->
        IF k = 1 THEN tokens[k] ELSE <<"|">> \o tokens[k]])

LinTokInit ==
    /\ lin_pc = "tokens"
    /\ lin_in \in UNION {[1..n -> LinTokens] : n \in 1..MaxTokens}
    /\ lin_result = [ok |-> FALSE, data |-> LinInit]
    /\ PaOff /\ RdOff /\ PbnOff /\ OlOff

\* parse_lin applied to the joined tokens.
LinTokParse ==
    /\ lin_pc = "tokens"
    /\ lin_result' = parse_lin_result(JoinTokens(lin_in))
    /\ lin_pc' = "parsed"
    /\ UNCHANGED <<lin_in, pa_vars, rd_vars, pbn_vars, ol_vars>>

LinTokNext == LinTokParse

SpecLinTokens == LinTokInit /\ [][LinTokNext]_vars

\* The bids of the auction when the tokens are read as key|value pairs from
\* 0-based index i on, an unrecognized key taking its value with it.
RECURSIVE PairedBids(_, _)
PairedBids(tokens, i) ==
    IF i + 1 >= Len(tokens) THEN <<>>
    ELSE IF Trim(tokens[i + 1]) = <<"m", "b">>
         THEN <<tokens[i + 2]>> \o PairedBids(tokens, i + 2)
         ELSE PairedBids(tokens, i + 2)

\* C11: an unrecognized key and the value token after it are both skipped,
\* so the auction holds exactly the values of the mb keys of the key|value
\* pairs; in xx|mb|mb|1C it is the single bid 1C.
C11_UnknownKeySkipsValue ==
    lin_pc = "parsed" =>
        /\ Len(lin_result.data.auction) = Len(PairedBids(lin_in, 0))
        /\ \A k \in 1..Len(lin_result.data.auction) :
              lin_result.data.auction[k].bid = PairedBids(lin_in, 0)[k]

(***************************************************************************)
(* Inputs of parse_printall called directly on a line slice: leading blank *)
(* lines, a header candidate and body lines.                               *)
(***************************************************************************)
MaxLead == 1

MaxBody == 5

Pad(s, n) == s \o Spaces(n - Len(s))

\* North A K, East Q, South and West void.
GoodLine ==
    Pad(<<"A", " ", "K", " ">>, COLUMN_WIDTH) \o Pad(<<"Q", " ">>, COLUMN_WIDTH)
    \o Pad(<<"-", " ">>, COLUMN_WIDTH) \o <<"-", " ">>

\* An X in North's slot.
BadLine == <<"A", " ", "X">>

\* Four void slots, then an X beyond the fourth slot.
FarLine ==
    Pad(<<"-", " ">>, COLUMN_WIDTH) \o Pad(<<"-", " ">>, COLUMN_WIDTH)
    \o Pad(<<"-", " ">>, COLUMN_WIDTH) \o Pad(<<"-", " ">>, COLUMN_WIDTH) \o <<"X">>

SliceBodyLines == {GoodLine, BadLine, FarLine, <<>>}

SliceHeaders ==
    {<<" ", " ", " ", "1", ".">>, <<"1", ".", ".">>, <<"+", "5", ".">>,
     <<"4", "2", " ", ".">>, <<"x", ".">>, <<"1", "2">>,
     [UsizeMaxDigits EXCEPT ![20] = "6"] \o <<".">>}

\* The lines joined into one text, a newline after each.
SliceInputs ==
    {JoinLines([k \in 1..lead |-> <<>>] \o <<h>> \o body) :
        lead \in 0..MaxLead, h \in SliceHeaders,
        body \in UNION {[1..n -> SliceBodyLines] : n \in 0..MaxBody}}

SliceInit ==
    /\ pa_pc = "slice" /\ pa_deal = NewDeal /\ pa_board = 0
    /\ pa_text \in SliceInputs /\ pa_result = PrintallError("")
    /\ LinOff /\ RdOff /\ PbnOff /\ OlOff

\* parse_printall applied to the lines of the slice.
SliceParse ==
    /\ pa_pc = "slice"
    /\ pa_result' = parse_printall(Lines(pa_text))
    /\ pa_pc' = "sliced"
    /\ UNCHANGED <<pa_deal, pa_board, pa_text, lin_vars, rd_vars, pbn_vars, ol_vars>>

SliceNext == SliceParse

SpecSlice == SliceInit /\ [][SliceNext]_vars

SliceLines == Lines(pa_text)

\* The number of blank lines before the first non-blank line of the slice.
LeadingBlanks ==
    IF \A k \in 1..Len(SliceLines) : AllWs(SliceLines[k]) THEN Len(SliceLines)
    ELSE (CHOOSE k \in 1..Len(SliceLines) :
              ~AllWs(SliceLines[k]) /\ \A j \in 1..(k - 1) : AllWs(SliceLines[j])) - 1

\* A blank line follows the fourth body line.
BlankAfterBody ==
    /\ Len(SliceLines) >= LeadingBlanks + 6
    /\ AllWs(SliceLines[LeadingBlanks + 6])

\* C12 as stated: on success the consumed-line count is 5, or 6 when a blank
\* line follows the fourth body line, also for a slice that starts with
\* blank lines.
C12_ConsumedFiveOrSix ==
    (pa_pc = "sliced" /\ pa_result.ok) =>
        pa_result.consumed = IF BlankAfterBody THEN 6 ELSE 5

\* C12 amended: on success the consumed-line count is the number of blank
\* lines before the header plus 5, or plus 6 when a blank line follows the
\* fourth body line.
C12_ConsumedCountsLeadingBlanks ==
    (pa_pc = "sliced" /\ pa_result.ok) =>
        pa_result.consumed = LeadingBlanks + (IF BlankAfterBody THEN 6 ELSE 5)

\* A slice with a blank line before the header and one after the body,
\* decoded with 7 lines consumed.
C12_Witness ==
    /\ pa_pc = "sliced" /\ pa_result.ok
    /\ LeadingBlanks = 1 /\ BlankAfterBody
    /\ pa_result.consumed = 7
    /\ pa_result.deal["N"] # <<>>

\* The first non-blank line of the slice, when there is one.
SliceHasHeader == LeadingBlanks < Len(SliceLines)

SliceHeader == SliceLines[LeadingBlanks + 1]

\* The header is a non-negative integer followed by a terminating '.':
\* digits, then one '.', with whitespace allowed only around them.
DigitsThenDot(h) ==
    LET t == Trim(h)
    IN  /\ Len(t) >= 2
        /\ t[Len(t)] = "."
        /\ \A i \in 1..(Len(t) - 1) : t[i] \in Digits

\* The header as the code accepts it: it ends in '.', and what precedes its
\* trailing run of '.' is, after trimming, an unsigned decimal integer with
\* an optional '+' that fits usize.
DotsAfterUsize(h) ==
    LET t == Trim(h)
        dots == {i \in 1..Len(t) : \A j \in i..Len(t) : t[j] = "."}
        stem == SubSeq(t, 1, Len(t) - Cardinality(dots))
        num == Trim(stem)
        body == IF num # <<>> /\ num[1] = "+" THEN Tail(num) ELSE num
    IN  /\ dots # {}
        /\ body # <<>>
        /\ \A i \in 1..Len(body) : body[i] \in Digits
        /\ FitsUsize(body)

FewerThanFourBodyLines == Len(SliceLines) < LeadingBlanks + 5

\* The 20-character slot number k (0-based) of a body line, trimmed.
Slot(line, k) ==
    Trim([i \in 1..(Min((k + 1) * COLUMN_WIDTH, Len(line)) - k * COLUMN_WIDTH) |->
             line[k * COLUMN_WIDTH + i]])

\* Some non-whitespace character of a non-void slot of one of the 4 body
\* lines is not a rank character.
BadRankInSlot ==
    \E b \in 1..4 : \E k \in 0..3 :
        LET slot == Slot(SliceLines[LeadingBlanks + 1 + b], k)
        IN  /\ slot # <<"-">>
            /\ \E i \in 1..Len(slot) : ~IsWs(slot[i]) /\ slot[i] \notin RankCharSet

\* C13 as stated: parse_printall returns an error exactly when the header is
\* not a non-negative integer followed by a terminating '.', fewer than 4
\* body lines follow it, or a non-whitespace character of a non-void slot is
\* not a rank character.
C13_ErrorExactlyWhen ==
    pa_pc = "sliced" =>
        (~pa_result.ok <=>
            \/ ~SliceHasHeader
            \/ ~DigitsThenDot(SliceHeader)
            \/ FewerThanFourBodyLines
            \/ BadRankInSlot)

\* C13 amended: the same, with the header test the code applies: the header
\* ends in '.', and the text before its trailing run of '.' characters is,
\* after trimming, a decimal integer with an optional '+' that fits usize.
C13_ErrorExactlyWhenCodeHeader ==
    pa_pc = "sliced" =>
        (~pa_result.ok <=>
            \/ ~SliceHasHeader
            \/ ~DotsAfterUsize(SliceHeader)
            \/ FewerThanFourBodyLines
            \/ BadRankInSlot)

\* A slice with header "1.." and 4 body lines, one with void markers and
\* one blank, that decodes.
C13_Witness ==
    /\ pa_pc = "sliced" /\ pa_result.ok
    /\ SliceHeader = <<"1", ".", ".">>
    /\ \E b \in 1..4 : SliceLines[LeadingBlanks + 1 + b] = GoodLine
    /\ \E b \in 1..4 : SliceLines[LeadingBlanks + 1 + b] = <<>>
    /\ \E b \in 1..4 : SliceLines[LeadingBlanks + 1 + b] = FarLine

\* The token at 1-based index k stands at a key position and every key
\* before it is a recognized key, so that parse_lin reads it as a key.
ReadAsKey(k) ==
    /\ k % 2 = 1 /\ k < Len(lin_in)
    /\ \A j \in 1..(k - 1) : j % 2 = 1 => Trim(lin_in[j]) \in LinKeys

\* The text holds a character at a rank position that is not a rank.
HasUnrecognizedRank(value) == \E i \in 1..Len(value) : value[i] = "X"

\* C14: parse_lin on a unit whose md hand or pc card holds an unrecognized
\* rank character returns an error, not Ok.
C14_BadRankIsError ==
    (/\ lin_pc = "parsed"
     /\ \E k \in 1..Len(lin_in) :
           /\ ReadAsKey(k)
           /\ Trim(lin_in[k]) \in {<<"p", "c">>, <<"m", "d">>}
           /\ HasUnrecognizedRank(lin_in[k + 1]))
    => ~lin_result.ok

(***************************************************************************)
(* Inputs of read_pbn: a content of at most MaxPbnLines lines.             *)
(***************************************************************************)
MaxPbnLines == 4

PbnLineSet ==
    {<<>>,
     <<"[", "B", "o", "a", "r", "d", " ", "\"", "1", "\"", "]">>,
     <<"[", "B", "o", "a", "r", "d", " ", "\"", "2", "\"", "]">>,
     <<"[", "F", "o", "o", " ", "\"", "x", "\"", "]">>,
     <<"[", "B", "a", "d", "]">>,
     <<"{", "a", "}">>,
     <<"{", "o", "p", "e", "n">>,
     <<"c", "l", "o", "s", "e", "}">>,
     <<"{", "a", "}", " ", "{", "b">>,
     <<"[", "S", "i", "t", "e", " ", "\"", "]">>}

PbnInit ==
    /\ pbn_pc = "loop"
    /\ pbn_content \in {JoinLines(ls) :
           ls \in UNION {[1..n -> PbnLineSet] : n \in 0..MaxPbnLines}}
    /\ pbn_pos = 0 /\ boards = <<>> /\ current_board = NewBoard
    /\ has_content = FALSE /\ in_commentary = FALSE /\ wr_boards = <<>>
    /\ PaOff /\ LinOff /\ RdOff /\ OlOff

\* One iteration of the loop of read_pbn over content.lines().
PbnLine ==
    /\ pbn_pc = "loop"
    /\ pbn_pos < Len(Lines(pbn_content))
    /\ \E r \in {PbnStep([boards |-> boards, current_board |-> current_board,
                          has_content |-> has_content,
                          in_commentary |-> in_commentary, panic |-> FALSE],
                         Lines(pbn_content)[pbn_pos + 1])} :
           IF r.panic
           THEN /\ pbn_pc' = "panicked"
                /\ UNCHANGED <<pbn_pos, boards, current_board, has_content,
                               in_commentary>>
           ELSE /\ pbn_pc' = "loop"
                /\ pbn_pos' = pbn_pos + 1
                /\ boards' = r.boards
                /\ current_board' = r.current_board
                /\ has_content' = r.has_content
                /\ in_commentary' = r.in_commentary
    /\ UNCHANGED <<pbn_content, wr_boards, pa_vars, lin_vars, rd_vars, ol_vars>>

\* After the loop: the last board is pushed when it has content.
PbnFinish ==
    /\ pbn_pc = "loop"
    /\ pbn_pos = Len(Lines(pbn_content))
    /\ boards' = IF has_content THEN Append(boards, current_board) ELSE boards
    /\ pbn_pc' = "done"
    /\ UNCHANGED <<pbn_content, pbn_pos, current_board, has_content, in_commentary,
                   wr_boards, pa_vars, lin_vars, rd_vars, ol_vars>>

PbnNext == PbnLine \/ PbnFinish

SpecPbn == PbnInit /\ [][PbnNext]_vars

PbnLines == Lines(pbn_content)

PbnBlank(k) == AllWs(PbnLines[k])

\* Line k is a well-formed tag line.
PbnTagLine(k) == parse_tag_pair(PbnLines[k]).res = "Some"

NoCommentary == ~Contains(pbn_content, "{") /\ ~Contains(pbn_content, "}")

\* The first line satisfying Tagged of every blank-line-separated group that
\* holds such a line.
GroupLeadersBy(Tagged(_)) ==
    SelectSeq(Indices(Len(PbnLines)),
              LAMBDA i : /\ Tagged(i)
                         /\ \A j \in 1..(i - 1) :
                               (\A k \in j..i : ~PbnBlank(k)) => ~Tagged(j))

GroupLeaders == GroupLeadersBy(PbnTagLine)

\* The tag names apply_tag_to_board acts on.
RecognizedTagNames ==
    {<<"B", "o", "a", "r", "d">>,
     <<"D", "e", "a", "l", "e", "r">>,
     <<"V", "u", "l", "n", "e", "r", "a", "b", "l", "e">>,
     <<"D", "e", "a", "l">>,
     <<"E", "v", "e", "n", "t">>,
     <<"S", "i", "t", "e">>,
     <<"D", "a", "t", "e">>,
     <<"D", "o", "u", "b", "l", "e", "D", "u", "m", "m", "y", "T", "r", "i", "c", "k", "s">>,
     <<"O", "p", "t", "i", "m", "u", "m", "S", "c", "o", "r", "e">>,
     <<"P", "a", "r", "C", "o", "n", "t", "r", "a", "c", "t">>}

\* Line k is a well-formed tag line whose name apply_tag_to_board acts on.
PbnRecognizedLine(k) ==
    PbnTagLine(k) /\ parse_tag_pair(PbnLines[k]).name \in RecognizedTagNames

\* The last line of the group of line i.
GroupEnd(i) ==
    CHOOSE e \in i..Len(PbnLines) :
        /\ \A k \in i..e : ~PbnBlank(k)
        /\ e = Len(PbnLines) \/ PbnBlank(e + 1)

\* The number set by the last Board tag of the group of line i, -1 for none.
GroupNumber(i) ==
    LET tags == {k \in i..GroupEnd(i) :
                    /\ PbnTagLine(k)
                    /\ parse_tag_pair(PbnLines[k]).name = <<"B", "o", "a", "r", "d">>
                    /\ ParseU32(parse_tag_pair(PbnLines[k]).value) # -1}
    IN  IF tags = {} THEN -1
        ELSE ParseU32(parse_tag_pair(PbnLines[SetMax(tags)]).value)

InSpan(k) ==
    LET before == JoinLines(SubSeq(PbnLines, 1, k - 1))
        braces == SelectSeq(before, LAMBDA c : c = "{" \/ c = "}")
    IN  braces # <<>> /\ braces[Len(braces)] = "{"

\* C16: a line that lies inside a commentary span, whether the span closes
\* on its opening line or lines later, changes neither the boards nor the
\* current board nor has_content, and a tag line outside every span is
\* applied to the current board.
C16_CommentaryOpaque ==
    [][(pbn_pc = "loop" /\ pbn_pos' = pbn_pos + 1) =>
          /\ InSpan(pbn_pos + 1) =>
                UNCHANGED <<boards, current_board, has_content>>
          /\ (~InSpan(pbn_pos + 1) /\ PbnTagLine(pbn_pos + 1)) =>
                /\ has_content'
                /\ current_board' =
                       apply_tag_to_board(current_board,
                                          parse_tag_pair(PbnLines[pbn_pos + 1]))]_vars

\* The number of deals the calls so far have yielded.
DealsYielded == Cardinality({i \in 1..Len(rd_items) : rd_items[i].kind = "Ok"})

\* The number of lines the calls so far have pulled from the source: every
\* entry up to the position reached, but for the reads that failed.
LinesPulled == Cardinality({k \in 1..rd_pos : rd_src[k] # IoFailure})

\* C17: after any sequence of next() calls deals_read equals the number of
\* deals yielded and line_number the number of lines pulled from the source,
\* blank, skipped and lookahead lines included; neither ever decreases.
C17_Counters ==
    /\ [](deals_read = DealsYielded /\ line_number = LinesPulled)
    /\ [][deals_read' >= deals_read /\ line_number' >= line_number]_vars

\* A decoded column block and a single-line record have both been yielded,
\* and a blank line and a skipped line were pulled on the way.
C17_Witness ==
    /\ deals_read = 2
    /\ \E i \in 1..Len(rd_items) :
           rd_items[i].kind = "Ok" /\ rd_items[i].to - rd_items[i].from >= 5
    /\ \E i \in 1..Len(rd_items) :
           rd_items[i].kind = "Ok" /\ IsRecordLine(rd_src[rd_items[i].to])
    /\ \E k \in 1..rd_pos : IsBlankLine(rd_src[k])
    /\ line_number > 7

\* Line k of the source is accepted by the single-line decoder or, failing
\* that, by the Deal tag decoder.
AcceptedEarly(k) ==
    /\ rd_src[k] # IoFailure
    /\ \/ parse_oneline(Trim(rd_src[k])).ok
       \/ /\ StartsWith(Trim(rd_src[k]), DealTagPrefix)
          /\ try_parse_pbn_deal_tag(Trim(rd_src[k])).some

\* The deal of the first decoder of the cascade that accepts line k.
EarlyDeal(k) ==
    IF parse_oneline(Trim(rd_src[k])).ok
    THEN parse_oneline(Trim(rd_src[k])).deal
    ELSE try_parse_pbn_deal_tag(Trim(rd_src[k])).deal

\* Line k was pulled by call i with no header-shaped line pulled by the call
\* before it, so that it is a line the cascade is tried on.
ScannedBy(i, k) ==
    /\ k \in (rd_items[i].from + 1)..rd_items[i].to
    /\ \A j \in (rd_items[i].from + 1)..(k - 1) :
           rd_src[j] # IoFailure /\ ~is_board_number_line(Trim(rd_src[j]))

\* C18: a line the cascade is tried on that the single-line decoder accepts,
\* or else the Deal tag decoder accepts, ends the call at that very line (no
\* lookahead line is pulled) with the deal of the first decoder accepting it.
C18_EarlierDecoderWins ==
    \A i \in 1..Len(rd_items) : \A k \in 1..Len(rd_src) :
        (ScannedBy(i, k) /\ AcceptedEarly(k)) =>
            /\ rd_items[i].to = k
            /\ rd_items[i].kind = "Ok"
            /\ rd_items[i].deal = EarlyDeal(k)

\* One call yielded the deal of a Deal tag line that other lines follow in
\* the source, and another the deal of a single-line record.
C18_Witness ==
    /\ \E i \in 1..Len(rd_items) :
           /\ rd_items[i].to < Len(rd_src)
           /\ ScannedBy(i, rd_items[i].to) /\ AcceptedEarly(rd_items[i].to)
           /\ ~parse_oneline(Trim(rd_src[rd_items[i].to])).ok
    /\ \E i \in 1..Len(rd_items) :
           /\ ScannedBy(i, rd_items[i].to)
           /\ rd_src[rd_items[i].to] # IoFailure
           /\ parse_oneline(Trim(rd_src[rd_items[i].to])).ok

\* Line l has 8 whitespace-separated tokens and a leading token that is not
\* a single-letter direction.
IsEightTokenNonRecord(l) ==
    /\ l # IoFailure
    /\ Len(SplitWhitespace(Trim(l))) = 8
    /\ ToLowercase(SplitWhitespace(Trim(l))[1]) \notin {<<"n">>, <<"e">>, <<"s">>, <<"w">>}

RecordsAndNonRecords ==
    \A i \in 1..Len(rd_units) : rd_units[i] \in RecordUnits \cup {"fn", "blank"}

\* C19: every 8-token line whose leading token is not a single-letter
\* direction is rejected by parse_oneline, and on a source of valid records,
\* such lines and blank lines the calls of next yield exactly the deals of
\* the records, in order, with deals_read counting them alone, no error, and
\* None only at the end of the input.
C19_NonRecordSkipped ==
    /\ \A k \in 1..Len(rd_src) :
           IsEightTokenNonRecord(rd_src[k]) => ~parse_oneline(Trim(rd_src[k])).ok
    /\ RecordsAndNonRecords =>
           \A i \in 1..Len(rd_items) :
               IF i <= Len(ExpectedDeals)
               THEN /\ rd_items[i].kind = "Ok"
                    /\ SameHands(rd_items[i].deal, ExpectedDeals[i])
                    /\ rd_items[i].dr = i
               ELSE /\ rd_items[i].kind = "None"
                    /\ rd_items[i].to = Len(rd_src)
                    /\ rd_items[i].dr = Len(ExpectedDeals)

\* An 8-token line with leading token Fn stands before a single-line
\* record; the call that pulled it yielded the record after it, and the
\* iterator ended.
C19_Witness ==
    /\ RecordsAndNonRecords
    /\ \E i \in 1..Len(rd_items) :
           /\ rd_items[i].kind = "Ok"
           /\ rd_items[i].to - rd_items[i].from >= 2
           /\ IsEightTokenNonRecord(rd_src[rd_items[i].to - 1])
           /\ rd_items[i].deal = RecordBDeal
    /\ rd_items[Len(rd_items)].kind = "None"
    /\ deals_read = Len(ExpectedDeals)

(***************************************************************************)
(* The single-line round trip: format_oneline, then parse_oneline.         *)
(***************************************************************************)
OlInit ==
    /\ ol_pc = "start" /\ ol_deal \in PaDeals
    /\ ol_text = <<>> /\ ol_result = OnelineError
    /\ PaOff /\ LinOff /\ RdOff /\ PbnOff

\* format_oneline applied to the deal.
OlFormat ==
    /\ ol_pc = "start"
    /\ ol_text' = format_oneline(ol_deal)
    /\ ol_pc' = "formatted"
    /\ UNCHANGED <<ol_deal, ol_result, pa_vars, lin_vars, rd_vars, pbn_vars>>

\* parse_oneline applied to the text.
OlParse ==
    /\ ol_pc = "formatted"
    /\ ol_result' = parse_oneline(ol_text)
    /\ ol_pc' = "parsed"
    /\ UNCHANGED <<ol_deal, ol_text, pa_vars, lin_vars, rd_vars, pbn_vars>>

OlNext == OlFormat \/ OlParse

SpecOneline == OlInit /\ [][OlNext]_vars

\* C20: for every deal with pairwise disjoint hands, voids and empty hands
\* included, parse_oneline on the text of format_oneline succeeds and gives
\* every direction the same set of cards as the deal.
C20_OnelineRoundTrip ==
    (ol_pc = "parsed" /\ PairwiseDisjoint(ol_deal)) =>
        /\ ol_result.ok
        /\ \A d \in DirSet : HandCards(ol_result.deal[d]) = HandCards(ol_deal[d])

\* A round trip of a deal with an empty hand, a hand of 13 cards and a hand
\* with a void next to a held suit.
C20_Witness ==
    /\ ol_pc = "parsed" /\ PairwiseDisjoint(ol_deal) /\ ol_result.ok
    /\ \E d \in DirSet : ol_deal[d] = EmptyHand
    /\ \E d \in DirSet : Len(ol_deal[d]) = 13
    /\ \E d \in DirSet : \E s, t \in SuitSet :
           cards_in_suit(ol_deal[d], s) = <<>> /\ cards_in_suit(ol_deal[d], t) # <<>>
    /\ \A d \in DirSet : HandCards(ol_result.deal[d]) = HandCards(ol_deal[d])

(***************************************************************************)
(* The tag-file round trip: write_pbn, then read_pbn line by line.         *)
(***************************************************************************)
MaxBoards == 2

\* Boards as a caller can build them: every field of Board is public.
BoardSet ==
    {[NewBoard EXCEPT !.number = 1, !.dealer = "N", !.deal = RecordADeal],
     [NewBoard EXCEPT !.number = 42, !.dealer = "S", !.vulnerable = "Both",
                      !.deal = GoodDeal, !.event = SomeText(<<"C", "u", "p">>),
                      !.par_contract = SomeText(<<"4", "S">>)],
     [NewBoard EXCEPT !.vulnerable = "NorthSouth"],
     [NewBoard EXCEPT !.number = 7, !.dealer = "W", !.vulnerable = "EastWest",
                      !.deal = RecordBDeal, !.date = SomeText(<<>>)],
     [NewBoard EXCEPT !.number = 3, !.dealer = "E", !.deal = RecordADeal,
                      !.site = SomeText(<<"a", NL, NL, "b">>)]}

WrInit ==
    /\ pbn_pc = "write"
    /\ wr_boards \in UNION {[1..n -> BoardSet] : n \in 0..MaxBoards}
    /\ pbn_content = <<>> /\ pbn_pos = 0 /\ boards = <<>>
    /\ current_board = NewBoard /\ has_content = FALSE /\ in_commentary = FALSE
    /\ PaOff /\ LinOff /\ RdOff /\ OlOff

\* write_pbn applied to the boards; read_pbn then starts on its text.
PbnWrite ==
    /\ pbn_pc = "write"
    /\ pbn_content' = write_pbn(wr_boards)
    /\ pbn_pc' = "loop"
    /\ UNCHANGED <<pbn_pos, boards, current_board, has_content, in_commentary,
                   wr_boards, pa_vars, lin_vars, rd_vars, ol_vars>>

WrNext == PbnWrite \/ PbnLine \/ PbnFinish

SpecPbnRoundTrip == WrInit /\ [][WrNext]_vars

\* C21: read_pbn on the text of write_pbn returns, and returns as many
\* boards as were written, in the same order, each with the board number,
\* dealer, vulnerability and hands of the board written.
C21_TagFileRoundTrip ==
    pbn_pc \in {"done", "panicked"} =>
        /\ pbn_pc = "done"
        /\ Len(boards) = Len(wr_boards)
        /\ \A k \in 1..Len(boards) :
              /\ boards[k].number = wr_boards[k].number
              /\ boards[k].dealer = wr_boards[k].dealer
              /\ boards[k].vulnerable = wr_boards[k].vulnerable
              /\ SameHands(boards[k].deal, wr_boards[k].deal)

\* Line k is a header-shaped line the cascade of call i is tried on, and the
\* source holds 4 more lines after it.
HeaderWithFourLines(i, k) ==
    /\ k + 4 <= Len(rd_src)
    /\ ScannedBy(i, k)
    /\ \A j \in k..(k + 4) : rd_src[j] # IoFailure
    /\ is_board_number_line(Trim(rd_src[k]))

\* C22: a call of next that reads a header-shaped line followed by 4 more
\* lines in the source ends exactly after those 4 lines, whether they decode
\* (Ok with the block's deal) or not (Err, deals_read unchanged); no call
\* ends on one of the first 3 of them, so none of the 4 lines is offered to
\* the single-line or Deal tag decoder and a record among them is not emitted.
C22_IrrevocableLookahead ==
    \A i \in 1..Len(rd_items) : \A k \in 1..Len(rd_src) :
        HeaderWithFourLines(i, k) =>
            LET blk == parse_printall(<<DummyHeader>> \o SubSeq(rd_src, k + 1, k + 4))
            IN  /\ rd_items[i].to = k + 4
                /\ \A n \in 1..Len(rd_items) : rd_items[n].to \notin (k + 1)..(k + 3)
                /\ IF blk.ok
                   THEN /\ rd_items[i].kind = "Ok"
                        /\ rd_items[i].deal = blk.deal
                        /\ rd_items[i].dr = DealsBefore(i) + 1
                   ELSE /\ rd_items[i].kind = "Err"
                        /\ rd_items[i].dr = DealsBefore(i)

\* A header-shaped line was followed by 4 lines with a valid single-line
\* record among them; the call returned Err after the 4 lines, the record was
\* not emitted and the reader has reached the end of the input.
C22_Witness ==
    /\ \E i \in 1..Len(rd_items) : \E k \in 1..Len(rd_src) :
           /\ HeaderWithFourLines(i, k)
           /\ \E j \in (k + 1)..(k + 4) : IsRecordLine(rd_src[j])
           /\ rd_items[i].kind = "Err"
           /\ rd_items[i].to = k + 4
    /\ line_number = Len(rd_src)
    /\ rd_items[Len(rd_items)].kind = "None"
    /\ deals_read = 0

\* The items the calls of next return on a source, up to the first None.
RECURSIVE EmittedFrom(_, _)
EmittedFrom(src, st) ==
    LET r == next(src, st)
    IN  IF r.item.kind = "None" THEN <<>> ELSE <<r.item>> \o EmittedFrom(src, r.st)

\* The deals of the Ok items of a sequence of items, in order.
OkDeals(items) ==
    LET ok == SelectSeq(items, LAMBDA it : it.kind = "Ok")
    IN  [i \in 1..Len(ok) |-> ok[i].deal]

WithoutBlanks(src) == SelectSeq(src, LAMBDA l : ~IsBlankLine(l))

\* C23: blank lines never count: once the reader is exhausted, the deals it
\* emitted are the deals it emits on the same source with every blank line
\* taken out, wherever the blank lines stand, between a header line and its
\* body lines included.
C23_BlankLinesNeverCount ==
    (NoIoError /\ rd_items # <<>> /\ rd_items[Len(rd_items)].kind = "None") =>
        OkDeals(rd_items)
            = OkDeals(EmittedFrom(WithoutBlanks(rd_src),
                                  [pos |-> 0, line_number |-> 0, deals_read |-> 0]))

(***************************************************************************)
(* Inputs of parse_lin as an auction: at most MaxAuctionTokens tokens      *)
(* joined by '|'.                                                          *)
(***************************************************************************)
MaxAuctionTokens == 6

AuctionTokens ==
    {<<"m", "b">>, <<"a", "n">>, <<"1", "C">>, <<"2", "H", "!">>, <<"a", "+", "b">>}

LinAuctionInit ==
    /\ lin_pc = "tokens"
    /\ lin_in \in UNION {[1..n -> AuctionTokens] : n \in 1..MaxAuctionTokens}
    /\ lin_result = [ok |-> FALSE, data |-> LinInit]
    /\ PaOff /\ RdOff /\ PbnOff /\ OlOff

SpecLinAuction == LinAuctionInit /\ [][LinTokNext]_vars

\* The key/value pairs of the input, by the position of their key.
KeyPositions == KeyPositionsFrom(lin_in, 1)

\* The pairs whose key is mb, in input order.
MbPairs == SelectSeq(KeyPositions, LAMBDA p : Trim(lin_in[p]) = <<"m", "b">>)

\* The an pairs that stand after mb pair number k and before the next mb pair.
AnPairsOf(k) ==
    {a \in {KeyPositions[n] : n \in 1..Len(KeyPositions)} :
        /\ Trim(lin_in[a]) = <<"a", "n">>
        /\ a > MbPairs[k]
        /\ k = Len(MbPairs) \/ a < MbPairs[k + 1]}

\* C24: the auction has one entry per mb key/value pair of the input, in
\* input order; an entry's alert is set exactly when its bid token ends in
\* '!'; its annotation is the value, with '+' as space, of the last an pair
\* standing between its mb pair and the next one, and none when there is no
\* such pair, so that an an pair touches only the last entry present and one
\* before any mb pair changes nothing.
C24_AuctionAccumulation ==
    lin_pc = "parsed" =>
        LET auction == lin_result.data.auction
        IN  /\ Len(auction) = Len(MbPairs)
            /\ \A k \in 1..Len(auction) :
                  /\ auction[k].alert = EndsWith(lin_in[MbPairs[k] + 1], "!")
                  /\ auction[k].bid = TrimEndMatches(lin_in[MbPairs[k] + 1], "!")
                  /\ auction[k].annotation =
                        IF AnPairsOf(k) = {} THEN NoAnnotation
                        ELSE [some |-> TRUE,
                              text |-> ReplacePlus(lin_in[SetMax(AnPairsOf(k)) + 1])]

\* Two bids, the second alerted and then annotated, the first left without
\* an annotation.
C24_Witness ==
    /\ lin_pc = "parsed"
    /\ Len(lin_result.data.auction) = 2
    /\ ~lin_result.data.auction[1].alert
    /\ lin_result.data.auction[1].annotation = NoAnnotation
    /\ lin_result.data.auction[2].alert
    /\ lin_result.data.auction[2].bid = <<"2", "H">>
    /\ lin_result.data.auction[2].annotation = [some |-> TRUE, text |-> <<"a", " ", "b">>]

\* The last call of next returned None.
Exhausted == rd_items # <<>> /\ rd_items[Len(rd_items)].kind = "None"

\* Every call so far consumed at least one entry of the source unless the
\* source was at its end, and returned None only at the end of the source.
CallsProgress ==
    \A i \in 1..Len(rd_items) :
        /\ rd_items[i].to <= Len(rd_src)
        /\ rd_items[i].from < Len(rd_src) => rd_items[i].to > rd_items[i].from
        /\ rd_items[i].from = Len(rd_src) =>
              rd_items[i].to = Len(rd_src) /\ rd_items[i].kind = "None"
        /\ rd_items[i].kind = "None" => rd_items[i].to = Len(rd_src)

\* C25: on every finite source each call of next returns, having pulled at
\* least one line (or met a failed read) unless the source was at its end;
\* the reader gets exhausted, None being returned only at the end of the
\* source; and once a call has returned None every later call returns None
\* and changes neither deals_read nor line_number.
C25_TerminatesAndStaysExhausted ==
    /\ []CallsProgress
    /\ <>Exhausted
    /\ [][Exhausted => /\ Exhausted'
                       /\ deals_read' = deals_read
                       /\ line_number' = line_number
                       /\ rd_pos' = rd_pos]_vars

\* A call skipped lines and yielded a deal, a later call returned None at
\* the end of the source, and the call after it returned None again.
C25_Witness ==
    /\ Len(rd_items) >= 3
    /\ rd_items[Len(rd_items)].kind = "None"
    /\ rd_items[Len(rd_items) - 1].kind = "None"
    /\ rd_items[Len(rd_items)].from = Len(rd_src)
    /\ \E i \in 1..Len(rd_items) :
           rd_items[i].kind = "Ok" /\ rd_items[i].to - rd_items[i].from >= 2
    /\ deals_read >= 1 /\ line_number = Len(rd_src)

(***************************************************************************)
(* Inputs of parse_lin as a stream of md values: at most MaxMdTokens       *)
(* tokens joined by '|'.                                                   *)
(***************************************************************************)
MaxMdTokens == 4

MdTokens ==
    {<<"m", "d">>, <<>>, <<"5", "S", "A", ",", ",">>, <<"1", "S", "A", ",">>, <<"3", "S", "A", ",", "H", "K", ",", "D", "Q">>, <<"1", "S", "2", ",", "H", "3", ",", "D", "4", ",", "C", "5">>}

LinMdInit ==
    /\ lin_pc = "tokens"
    /\ lin_in \in UNION {[1..n -> MdTokens] : n \in 1..MaxMdTokens}
    /\ lin_result = [ok |-> FALSE, data |-> LinInit]
    /\ PaOff /\ RdOff /\ PbnOff /\ OlOff

SpecLinMd == LinMdInit /\ [][LinTokNext]_vars

\* An md value is rejected when it is empty, when its first character is
\* not one of 1..4, or when fewer than 3 comma-separated parts follow it.
MdRejected(v) ==
    \/ v = <<>>
    \/ v[1] \notin {"1", "2", "3", "4"}
    \/ Len(Split(Tail(v), ",")) < 3

\* The md key/value pairs of the input whose value is accepted, in order.
AcceptedMdPairs ==
    SelectSeq(KeyPositionsFrom(lin_in, 1),
              LAMBDA p : Trim(lin_in[p]) = <<"m", "d">> /\ ~MdRejected(lin_in[p + 1]))

\* C26: parse_lin returns Ok; parse_md rejects exactly the md values that
\* are empty, start with a character other than 1..4 or hold fewer than 3
\* parts; the dealer and the deal returned are those of the last accepted
\* md value, whatever rejected md values stand before or after it and
\* whatever an earlier accepted one had set, and North and the empty deal
\* when no md value is accepted.
C26_RejectedMdChangesNothing ==
    lin_pc = "parsed" =>
        /\ lin_result.ok
        /\ \A k \in 1..Len(lin_in) : parse_md(lin_in[k]).some = ~MdRejected(lin_in[k])
        /\ IF AcceptedMdPairs = <<>>
           THEN lin_result.data.dealer = "N" /\ lin_result.data.deal = NewDeal
           ELSE LET md == parse_md(lin_in[AcceptedMdPairs[Len(AcceptedMdPairs)] + 1])
                IN  /\ lin_result.data.dealer = md.dealer
                    /\ lin_result.data.deal = md.deal

\* An accepted md value followed by a rejected one: the dealer and the
\* hands of the accepted value are returned.
C26_Witness ==
    /\ lin_pc = "parsed"
    /\ Len(lin_in) = 4
    /\ lin_in[1] = <<"m", "d">> /\ lin_in[2] = <<"1", "S", "2", ",", "H", "3", ",", "D", "4", ",", "C", "5">>
    /\ lin_in[3] = <<"m", "d">> /\ MdRejected(lin_in[4])
    /\ lin_result.data.dealer = "S"
    /\ lin_result.data.deal["S"] = <<Card("S", 2)>>
    /\ lin_result.data.deal["W"] = <<Card("H", 3)>>
    /\ lin_result.data.deal["N"] = <<Card("D", 4)>>

====
